---- MODULE Spec2Model ----
(***************************************************************************)
(* NeuralLog server: the storage abstraction layer.                        *)
(*                                                                         *)
(* Three interchangeable storage adapters (MemoryStorageAdapter,           *)
(* NeDBStorageAdapter, RedisStorageAdapter) keep named logs of entries and *)
(* running statistics.  Every handler is modelled as an operator from the  *)
(* adapter's state to its next state and result, translated from the       *)
(* handler's code; the actions apply one handler to the adapter under      *)
(* test.  One behaviour exercises one adapter (variable backend).          *)
(***************************************************************************)
EXTENDS Integers, Sequences, FiniteSets, TLC

VARIABLES
  backend,   \* which adapter class the instance under test is
  now,       \* epoch-ms reading of the wall clock at the latest operation
  adapter,   \* the adapter object: its fields, and the store behind it
  last,      \* the latest call made on the adapter and what it returned
  registry   \* NamespacedStorageAdapterFactory: its cache and the instances made

vars == <<backend, now, adapter, last, registry>>

----------------------------------------------------------------------------
(* Bounds of the model                                                     *)

MaxTime == 1        \* the clock runs over 1..MaxTime
MaxId == 2          \* caller-chosen ids are 1..MaxId
MaxLen == 2         \* no more than MaxLen entries are pushed on one log
MaxDrift == 1       \* totalLogs is followed down to -MaxDrift
MaxEntries == 2     \* totalEntries is followed up to MaxEntries
DataTime == 2       \* the clock of the callers that vary the payload
LargeSpan == 1      \* the clock of the large log runs LargeSpan ms past the fill
MaxCallers == 3     \* request handlers that share the factory
MaxInstances == 3   \* adapters the factory is followed to construct
MaxStores == 3      \* calls followed on the shared Redis server
MaxRequests == 3    \* overwrite requests in flight at once
SkewTime == 3       \* the wall clock that is set back reads 1..SkewTime
MaxTasks == 2       \* calls in flight at once on one instance

Names == {"L", "M"}
Ids == 1..MaxId
Backends == {"memory", "nedb", "redis"}

\* default page size of getLogsByName
DefaultLimit == 100

\* a limit no log of the model reaches
NoLimit == DefaultLimit * 10

\* an absent optional number (firstEntryTimestamp?: number)
Undefined == -1

\* the empty Map, and Map.set: the map m with key k bound to v
EmptyMap == [n \in {} |-> 0]
Put(m, k, v) == (k :> v) @@ m

----------------------------------------------------------------------------
(* JSON values, JSON.stringify and JSON.parse                              *)
(* A value is a string, a number or an object with the one field "level".  *)
(* Text is a sequence of characters.                                       *)

JStr(s) == [t |-> "str", s |-> s, n |-> 0]
JNum(n) == [t |-> "num", s |-> <<>>, n |-> n]
JObj(s) == [t |-> "obj", s |-> s, n |-> 0]

Digit == <<"0", "1", "2", "3", "4", "5", "6", "7", "8", "9">>

\* payloads the callers store
Payload == JObj(<<"e">>)
Payloads == {JStr(<<"7">>), Payload}

\* the JSON values that occur
\* a second object, for the callers that compare the backends
Warning == JObj(<<"w">>)

JsonUniverse == Payloads \cup {JNum(n) : n \in 0..9} \cup {JStr(<<"e">>), Warning}

JSONstringify(v) ==
  CASE v.t = "str" -> <<"\"">> \o v.s \o <<"\"">>
    [] v.t = "num" -> <<Digit[v.n + 1]>>
    [] v.t = "obj" -> <<"{", "\"", "l", "e", "v", "e", "l", "\"", ":", "\"">>
                        \o v.s \o <<"\"", "}">>

IsJSON(text) == \E v \in JsonUniverse : JSONstringify(v) = text

\* defined when IsJSON(text); JSON.parse throws otherwise
JSONparse(text) == CHOOSE v \in JsonUniverse : JSONstringify(v) = text

\* Date: new Date(ms).toISOString() and new Date(iso).getTime()
toISOString(ms) == [iso |-> ms]
getTime(stamp) == stamp.iso

\* JavaScript truthiness of an optional number
Falsy(x) == x = Undefined \/ x = 0

LogEntry(id, name, data, t) ==
  [id |-> id, name |-> name, data |-> data, timestamp |-> toISOString(t)]

NoStats == [entryCount |-> 0, firstEntryTimestamp |-> Undefined,
            lastEntryTimestamp |-> Undefined]

Outcome(st, res) == [state |-> st, result |-> res]

\* the round with its two comparisons exchanged
ScanStep_reversed(acc, entry) ==
  LET timestamp == getTime(entry.timestamp)
      first == IF Falsy(acc.firstEntryTimestamp) \/ timestamp > acc.firstEntryTimestamp
               THEN timestamp ELSE acc.firstEntryTimestamp
      lastT == IF Falsy(acc.lastEntryTimestamp) \/ timestamp < acc.lastEntryTimestamp
               THEN timestamp ELSE acc.lastEntryTimestamp
  IN IF Falsy(timestamp) THEN acc
     ELSE [acc EXCEPT !.firstEntryTimestamp = first, !.lastEntryTimestamp = lastT]

\* one round of the for-loop that folds entry timestamps into first/last
ScanStep(acc, entry) ==
  LET timestamp == getTime(entry.timestamp)
      first == IF Falsy(acc.firstEntryTimestamp) \/ timestamp < acc.firstEntryTimestamp
               THEN timestamp ELSE acc.firstEntryTimestamp
      lastT == IF Falsy(acc.lastEntryTimestamp) \/ timestamp > acc.lastEntryTimestamp
               THEN timestamp ELSE acc.lastEntryTimestamp
  IN IF Falsy(timestamp) THEN acc
     ELSE [acc EXCEPT !.firstEntryTimestamp = first, !.lastEntryTimestamp = lastT]

\* TRUE for every value; a loop tests its accumulator with it so that each
\* round is computed before the next one starts
Computed(v) == v = v

\* the loop over entries[lo..hi], left to right
RECURSIVE ScanTimestamps(_, _, _, _)
ScanTimestamps(entries, lo, hi, acc) ==
  IF lo > hi \/ ~Computed(acc) THEN acc
  ELSE ScanTimestamps(entries, lo + 1, hi, ScanStep(acc, entries[lo]))

\* index of the first element with the id, 0 when there is none (findIndex)
FindIndex(entries, logId) ==
  IF \E i \in 1..Len(entries) : entries[i].id = logId
  THEN CHOOSE i \in 1..Len(entries) :
         /\ entries[i].id = logId
         /\ \A j \in 1..(i - 1) : entries[j].id # logId
  ELSE 0

\* Array.prototype.splice(index, 1)
Splice(entries, index) ==
  SubSeq(entries, 1, index - 1) \o SubSeq(entries, index + 1, Len(entries))

RECURSIVE SumOver(_, _)
SumOver(f, S) ==
  IF S = {} THEN 0
  ELSE LET x == CHOOSE y \in S : TRUE IN f[x] + SumOver(f, S \ {x})

----------------------------------------------------------------------------
(* MemoryStorageAdapter                                                    *)

Memory_new ==
  [logs |-> EmptyMap,
   statistics |-> [totalLogs |-> 0, totalEntries |-> 0, logStats |-> EmptyMap],
   initialized |-> FALSE]

\* initialize() without the early return: the statistics are counted
\* again from the logs on every call
Memory_initialize_recounts(s) ==
  LET nonEmpty == {n \in DOMAIN s.logs : Len(s.logs[n]) > 0}
      counts == [n \in nonEmpty |-> Len(s.logs[n])]
  IN [s EXCEPT
        !.statistics =
           [totalLogs |-> Cardinality(DOMAIN s.logs),
            totalEntries |-> SumOver(counts, nonEmpty),
            logStats |-> [n \in nonEmpty |->
               ScanTimestamps(s.logs[n], 1, Len(s.logs[n]),
                 [NoStats EXCEPT !.entryCount = Len(s.logs[n])])]],
        !.initialized = TRUE]

Memory_initialize(s) ==
  IF s.initialized THEN s
  ELSE LET nonEmpty == {n \in DOMAIN s.logs : Len(s.logs[n]) > 0}
           counts == [n \in nonEmpty |-> Len(s.logs[n])]
       IN [s EXCEPT
             !.statistics =
                [totalLogs |-> Cardinality(DOMAIN s.logs),
                 totalEntries |-> SumOver(counts, nonEmpty),
                 logStats |-> [n \in nonEmpty |->
                    ScanTimestamps(s.logs[n], 1, Len(s.logs[n]),
                      [NoStats EXCEPT !.entryCount = Len(s.logs[n])])]],
             !.initialized = TRUE]

Memory_updateStatisticsOnAdd(s0, logName, entry) ==
  LET s == Memory_initialize(s0)
      old == IF logName \in DOMAIN s.statistics.logStats
             THEN s.statistics.logStats[logName] ELSE NoStats
      timestamp == getTime(entry.timestamp)
      \* entryCount++ and the unconditional lastEntryTimestamp assignment
      bumped == [old EXCEPT !.entryCount = @ + 1,
                            !.lastEntryTimestamp = timestamp]
      first == IF Falsy(bumped.firstEntryTimestamp) \/ timestamp < bumped.firstEntryTimestamp
               THEN timestamp ELSE bumped.firstEntryTimestamp
      lastT == IF Falsy(bumped.lastEntryTimestamp) \/ timestamp > bumped.lastEntryTimestamp
               THEN timestamp ELSE bumped.lastEntryTimestamp
      logStats == IF Falsy(timestamp) THEN bumped
                  ELSE [bumped EXCEPT !.firstEntryTimestamp = first,
                                      !.lastEntryTimestamp = lastT]
  IN [s EXCEPT !.statistics.totalEntries = @ + 1,
               !.statistics.logStats =
                  Put(@, logName, logStats)]

Memory_recalculateLogStatistics(s, logName) ==
  LET entries == IF logName \in DOMAIN s.logs THEN s.logs[logName] ELSE <<>>
      logStats == ScanTimestamps(entries, 1, Len(entries),
                      [NoStats EXCEPT !.entryCount = Len(entries)])
  IN [s EXCEPT !.statistics.logStats =
                  Put(@, logName, logStats)]

Memory_updateStatisticsOnUpdate(s0, logName, oldEntry, newEntry) ==
  LET s == Memory_initialize(s0)
      newTimestamp == getTime(newEntry.timestamp)
      oldTimestamp == getTime(oldEntry.timestamp)
  IN IF logName \notin DOMAIN s.statistics.logStats THEN s
     ELSE LET logStats == s.statistics.logStats[logName] IN
       IF Falsy(newTimestamp) THEN s
       ELSE IF ~Falsy(oldTimestamp) /\ oldTimestamp = logStats.firstEntryTimestamp
         THEN Memory_recalculateLogStatistics(s, logName)
       ELSE IF ~Falsy(oldTimestamp) /\ oldTimestamp = logStats.lastEntryTimestamp
         THEN Memory_recalculateLogStatistics(s, logName)
       ELSE LET first == IF Falsy(logStats.firstEntryTimestamp)
                            \/ newTimestamp < logStats.firstEntryTimestamp
                         THEN newTimestamp ELSE logStats.firstEntryTimestamp
                lastT == IF Falsy(logStats.lastEntryTimestamp)
                            \/ newTimestamp > logStats.lastEntryTimestamp
                         THEN newTimestamp ELSE logStats.lastEntryTimestamp
            IN [s EXCEPT !.statistics.logStats[logName] =
                  [@ EXCEPT !.firstEntryTimestamp = first,
                            !.lastEntryTimestamp = lastT]]

\* updateStatisticsOnDelete without the removal of the emptied log's
\* record: the record stays, with entryCount 0
Memory_updateStatisticsOnDelete_keepsRecord(s0, logName, entry) ==
  LET s == Memory_initialize(s0)
      timestamp == getTime(entry.timestamp)
  IN IF logName \notin DOMAIN s.statistics.logStats THEN s
     ELSE LET logStats == s.statistics.logStats[logName]
              s1 == [s EXCEPT !.statistics.logStats[logName].entryCount = @ - 1,
                              !.statistics.totalEntries = @ - 1]
          IN IF logStats.entryCount - 1 <= 0
             THEN [s1 EXCEPT !.statistics.totalLogs = @ - 1]
             ELSE IF ~Falsy(timestamp)
                     /\ (timestamp = logStats.firstEntryTimestamp
                         \/ timestamp = logStats.lastEntryTimestamp)
               THEN Memory_recalculateLogStatistics(s1, logName)
               ELSE s1

Memory_updateStatisticsOnDelete(s0, logName, entry) ==
  LET s == Memory_initialize(s0)
      timestamp == getTime(entry.timestamp)
  IN IF logName \notin DOMAIN s.statistics.logStats THEN s
     ELSE LET logStats == s.statistics.logStats[logName]
              s1 == [s EXCEPT !.statistics.logStats[logName].entryCount = @ - 1,
                              !.statistics.totalEntries = @ - 1]
          IN IF logStats.entryCount - 1 <= 0
             THEN [s1 EXCEPT !.statistics.logStats =
                                [n \in DOMAIN @ \ {logName} |-> @[n]],
                             !.statistics.totalLogs = @ - 1]
             ELSE IF ~Falsy(timestamp)
                     /\ (timestamp = logStats.firstEntryTimestamp
                         \/ timestamp = logStats.lastEntryTimestamp)
               THEN Memory_recalculateLogStatistics(s1, logName)
               ELSE s1

Memory_updateStatisticsOnClear(s0, logName) ==
  LET s == Memory_initialize(s0)
  IN IF logName \notin DOMAIN s.statistics.logStats THEN s
     ELSE [s EXCEPT !.statistics.totalEntries =
                       @ - s.statistics.logStats[logName].entryCount,
                    !.statistics.logStats =
                       [n \in DOMAIN @ \ {logName} |-> @[n]],
                    !.statistics.totalLogs = @ - 1]

Memory_storeLogEntry(s0, logId, logName, logData, t) ==
  LET s == Memory_initialize(s0)
      entry == LogEntry(logId, logName, logData, t)
      isNew == logName \notin DOMAIN s.logs
      s1 == IF isNew
            THEN [s EXCEPT !.logs = Put(@, logName, <<>>),
                           !.statistics.totalLogs = @ + 1]
            ELSE s
      s2 == [s1 EXCEPT !.logs[logName] = Append(@, entry)]
  IN Outcome(Memory_updateStatisticsOnAdd(s2, logName, entry), "ok")

Memory_getLogEntryById(s, logName, logId) ==
  LET logEntries == IF logName \in DOMAIN s.logs THEN s.logs[logName] ELSE <<>>
      index == FindIndex(logEntries, logId)
  IN IF index = 0 THEN <<>> ELSE <<logEntries[index]>>

\* updateLogEntryById that stores the entry when the id is not in the log
Memory_updateLogEntryById_upserts(s0, logName, logId, logData, t) ==
  LET s == Memory_initialize(s0)
      logEntries == IF logName \in DOMAIN s.logs THEN s.logs[logName] ELSE <<>>
      index == FindIndex(logEntries, logId)
  IN IF index = 0
     THEN Outcome(Memory_storeLogEntry(s, logId, logName, logData, t).state, "true")
     ELSE LET oldEntry == logEntries[index]
              newEntry == [oldEntry EXCEPT !.data = logData,
                                           !.timestamp = toISOString(t)]
              s1 == [s EXCEPT !.logs[logName][index] = newEntry]
          IN Outcome(Memory_updateStatisticsOnUpdate(s1, logName, oldEntry, newEntry),
                     "true")

Memory_updateLogEntryById(s0, logName, logId, logData, t) ==
  LET s == Memory_initialize(s0)
      logEntries == IF logName \in DOMAIN s.logs THEN s.logs[logName] ELSE <<>>
      index == FindIndex(logEntries, logId)
  IN IF index = 0 THEN Outcome(s, "false")
     ELSE LET oldEntry == logEntries[index]
              newEntry == [oldEntry EXCEPT !.data = logData,
                                           !.timestamp = toISOString(t)]
              s1 == [s EXCEPT !.logs[logName][index] = newEntry]
          IN Outcome(Memory_updateStatisticsOnUpdate(s1, logName, oldEntry, newEntry),
                     "true")

Memory_deleteLogEntryById(s0, logName, logId) ==
  LET s == Memory_initialize(s0)
      logEntries == IF logName \in DOMAIN s.logs THEN s.logs[logName] ELSE <<>>
      index == FindIndex(logEntries, logId)
  IN IF index = 0 THEN Outcome(s, "false")
     ELSE LET entry == logEntries[index]
              s1 == [s EXCEPT !.logs[logName] = Splice(@, index)]
          IN Outcome(Memory_updateStatisticsOnDelete(s1, logName, entry), "true")

Memory_clearLog(s0, logName) ==
  LET s == Memory_initialize(s0)
  IN IF logName \notin DOMAIN s.logs THEN Outcome(s, "false")
     ELSE LET s1 == Memory_updateStatisticsOnClear(s, logName)
          IN Outcome([s1 EXCEPT !.logs = [n \in DOMAIN @ \ {logName} |-> @[n]]],
                     "true")

Memory_getLogNames(s, limit) == DOMAIN s.logs

Memory_getAggregateStatistics(s0) == Memory_initialize(s0).statistics

Memory_getLogStatistics(s0, logName) ==
  LET s == Memory_initialize(s0)
  IN IF logName \in DOMAIN s.statistics.logStats
     THEN <<s.statistics.logStats[logName]>> ELSE <<>>

----------------------------------------------------------------------------
(* Sorting: newest first                                                   *)

\* ids are smaller than IdBase, so a timestamp and an id pack into one key
IdBase == NoLimit

\* stable sort of a sequence by non-increasing timestamp (Array.prototype.sort
\* with the comparator b.timestamp - a.timestamp)
SortNewestFirst(entries) ==
  LET ms(i) == getTime(entries[i].timestamp)
      order == SortSeq([i \in 1..Len(entries) |-> i],
                       LAMBDA a, b : ms(a) > ms(b) \/ (ms(a) = ms(b) /\ a < b))
  IN [k \in 1..Len(entries) |-> entries[order[k]]]

\* a set of ids as a sequence by non-increasing score; ids of one score by
\* ascending id (tie = "asc") or by descending id (tie = "desc")
SortKey(id, score, tie) ==
  score[id] * IdBase + (IF tie = "desc" THEN id ELSE IdBase - id)

SortIds(I, score, tie) ==
  LET top == IF I = {} THEN 0 ELSE CHOOSE x \in I : \A y \in I : x >= y
  IN SortSeq(SelectSeq([i \in 1..top |-> i], LAMBDA i : i \in I),
             LAMBDA a, b : SortKey(a, score, tie) > SortKey(b, score, tie))

\* Array.prototype.slice(0, limit)
Slice(seq, limit) ==
  IF limit >= Len(seq) THEN seq ELSE SubSeq(seq, 1, limit)

Memory_getLogsByName(s, logName, limit) ==
  LET logEntries == IF logName \in DOMAIN s.logs THEN s.logs[logName] ELSE <<>>
  IN Slice(SortNewestFirst(logEntries), limit)

----------------------------------------------------------------------------
(* NeDBStorageAdapter                                                      *)
(* _logsDb is the set of documents of logs.db (unique index on id);        *)
(* _statsDb holds the global document, when there is one, and the logStat  *)
(* documents by logName.                                                   *)

NeDB_new ==
  [logsDb |-> {},
   statsDb |-> [global |-> <<>>, logStat |-> EmptyMap],
   statistics |-> [totalLogs |-> 0, totalEntries |-> 0, logStats |-> EmptyMap],
   initialized |-> FALSE]

NeDB_loadStatistics(s) ==
  LET found == Len(s.statsDb.global) > 0
      globalStats == IF found THEN s.statsDb.global[1]
                     ELSE [totalLogs |-> 0, totalEntries |-> 0]
  IN [s EXCEPT
        !.statistics.totalLogs = IF found THEN globalStats.totalLogs ELSE @,
        !.statistics.totalEntries = IF found THEN globalStats.totalEntries ELSE @,
        !.statsDb.global = <<globalStats>>,
        !.statistics.logStats = [n \in DOMAIN s.statsDb.logStat |-> s.statsDb.logStat[n]]]

NeDB_initialize(s) ==
  IF s.initialized THEN s
  ELSE [NeDB_loadStatistics(
          [s EXCEPT !.statistics = [totalLogs |-> 0, totalEntries |-> 0,
                                    logStats |-> EmptyMap]])
        EXCEPT !.initialized = TRUE]

NeDB_ensureInitialized(s) == IF ~s.initialized THEN NeDB_initialize(s) ELSE s

\* close(): the datastores keep their documents
NeDB_close(s) == [s EXCEPT !.initialized = FALSE]

NeDB_saveStatistics(s) ==
  [s EXCEPT
     !.statsDb.global = <<[totalLogs |-> s.statistics.totalLogs,
                           totalEntries |-> s.statistics.totalEntries]>>,
     !.statsDb.logStat =
        s.statistics.logStats @@ @]

\* Cursor built by find(query {name}, sort {timestamp: -1}, limit): a limit
\* of 0 is falsy and leaves the cursor unlimited
NeDB_find(s, logName, limit) ==
  LET docs == {d \in s.logsDb : d.name = logName}
      byId == [i \in {d.id : d \in docs} |-> CHOOSE d \in docs : d.id = i]
      score == [i \in DOMAIN byId |-> getTime(byId[i].timestamp)]
      ids == SortIds(DOMAIN byId, score, "asc")
      sorted == [k \in 1..Len(ids) |-> byId[ids[k]]]
  IN IF limit = 0 THEN sorted ELSE Slice(sorted, limit)

NeDB_getLogsByName(s0, logName, limit) ==
  NeDB_find(NeDB_ensureInitialized(s0), logName, limit)

NeDB_tryParseJSON(jsonString) ==
  IF IsJSON(jsonString) THEN JSONparse(jsonString) ELSE JStr(jsonString)

NeDB_recalculateLogStatistics(s, logName) ==
  LET entries == NeDB_getLogsByName(s, logName, DefaultLimit)
      logStats == ScanTimestamps(entries, 1, Len(entries),
                      [NoStats EXCEPT !.entryCount = Len(entries)])
  IN NeDB_saveStatistics(
       [s EXCEPT !.statistics.logStats =
                   Put(@, logName, logStats)])

NeDB_updateStatisticsOnAdd(s0, logName, entry) ==
  LET s == NeDB_ensureInitialized(s0)
      old == IF logName \in DOMAIN s.statistics.logStats
             THEN s.statistics.logStats[logName] ELSE NoStats
      timestamp == getTime(entry.timestamp)
      bumped == [old EXCEPT !.entryCount = @ + 1]
      first == IF Falsy(bumped.firstEntryTimestamp) \/ timestamp < bumped.firstEntryTimestamp
               THEN timestamp ELSE bumped.firstEntryTimestamp
      lastT == IF Falsy(bumped.lastEntryTimestamp) \/ timestamp > bumped.lastEntryTimestamp
               THEN timestamp ELSE bumped.lastEntryTimestamp
      logStats == IF Falsy(timestamp) THEN bumped
                  ELSE [bumped EXCEPT !.firstEntryTimestamp = first,
                                      !.lastEntryTimestamp = lastT]
  IN NeDB_saveStatistics(
       [s EXCEPT !.statistics.totalEntries = @ + 1,
                 !.statistics.logStats =
                    Put(@, logName, logStats)])

NeDB_updateStatisticsOnUpdate(s0, logName, oldEntry, newEntry) ==
  LET s == NeDB_ensureInitialized(s0)
      newTimestamp == getTime(newEntry.timestamp)
      oldTimestamp == getTime(oldEntry.timestamp)
  IN IF logName \notin DOMAIN s.statistics.logStats THEN s
     ELSE LET logStats == s.statistics.logStats[logName] IN
       IF Falsy(newTimestamp) THEN NeDB_saveStatistics(s)
       ELSE IF ~Falsy(oldTimestamp) /\ oldTimestamp = logStats.firstEntryTimestamp
         THEN NeDB_recalculateLogStatistics(s, logName)
       ELSE IF ~Falsy(oldTimestamp) /\ oldTimestamp = logStats.lastEntryTimestamp
         THEN NeDB_recalculateLogStatistics(s, logName)
       ELSE LET first == IF Falsy(logStats.firstEntryTimestamp)
                            \/ newTimestamp < logStats.firstEntryTimestamp
                         THEN newTimestamp ELSE logStats.firstEntryTimestamp
                lastT == IF Falsy(logStats.lastEntryTimestamp)
                            \/ newTimestamp > logStats.lastEntryTimestamp
                         THEN newTimestamp ELSE logStats.lastEntryTimestamp
            IN NeDB_saveStatistics(
                 [s EXCEPT !.statistics.logStats[logName] =
                    [@ EXCEPT !.firstEntryTimestamp = first,
                              !.lastEntryTimestamp = lastT]])

NeDB_updateStatisticsOnDelete(s0, logName, entry) ==
  LET s == NeDB_ensureInitialized(s0)
      timestamp == getTime(entry.timestamp)
  IN IF logName \notin DOMAIN s.statistics.logStats THEN s
     ELSE LET logStats == s.statistics.logStats[logName]
              s1 == [s EXCEPT !.statistics.logStats[logName].entryCount = @ - 1,
                              !.statistics.totalEntries = @ - 1]
          IN IF logStats.entryCount - 1 <= 0
             THEN [s1 EXCEPT !.statistics.logStats =
                                [n \in DOMAIN @ \ {logName} |-> @[n]],
                             !.statistics.totalLogs = @ - 1]
             ELSE IF ~Falsy(timestamp)
                     /\ (timestamp = logStats.firstEntryTimestamp
                         \/ timestamp = logStats.lastEntryTimestamp)
               THEN NeDB_saveStatistics(NeDB_recalculateLogStatistics(s1, logName))
               ELSE NeDB_saveStatistics(s1)

NeDB_updateStatisticsOnClear(s0, logName) ==
  LET s == NeDB_ensureInitialized(s0)
  IN IF logName \notin DOMAIN s.statistics.logStats THEN s
     ELSE NeDB_saveStatistics(
            [s EXCEPT !.statistics.totalEntries =
                         @ - s.statistics.logStats[logName].entryCount,
                      !.statistics.logStats =
                         [n \in DOMAIN @ \ {logName} |-> @[n]],
                      !.statistics.totalLogs = @ - 1])

\* a store that counts the entry before the insert is attempted
NeDB_storeLogEntry_countsFirst(s0, logId, logName, logData, t) ==
  LET s == NeDB_ensureInitialized(s0)
      dataToStore == IF logData.t = "str" THEN NeDB_tryParseJSON(logData.s)
                     ELSE logData
      document == LogEntry(logId, logName, dataToStore, t)
      counted == NeDB_updateStatisticsOnAdd(s, logName, document)
  IN IF \E d \in s.logsDb : d.id = logId
     THEN Outcome(counted, "error")
     ELSE Outcome([counted EXCEPT !.logsDb = @ \cup {document}], "ok")

NeDB_storeLogEntry(s0, logId, logName, logData, t) ==
  LET s == NeDB_ensureInitialized(s0)
      dataToStore == IF logData.t = "str" THEN NeDB_tryParseJSON(logData.s)
                     ELSE logData
      document == LogEntry(logId, logName, dataToStore, t)
  IN IF \E d \in s.logsDb : d.id = logId
     THEN Outcome(s, "error")   \* insert rejects: unique index on id
     ELSE Outcome(NeDB_updateStatisticsOnAdd(
                    [s EXCEPT !.logsDb = @ \cup {document}], logName, document),
                  "ok")

NeDB_getLogEntryById(s0, logName, logId) ==
  LET s == NeDB_ensureInitialized(s0)
      found == {d \in s.logsDb : d.name = logName /\ d.id = logId}
  IN IF found = {} THEN <<>> ELSE <<CHOOSE d \in found : TRUE>>

NeDB_updateLogEntryById(s0, logName, logId, logData, t) ==
  LET s == NeDB_ensureInitialized(s0)
      existing == NeDB_getLogEntryById(s, logName, logId)
  IN IF existing = <<>> THEN Outcome(s, "false")
     ELSE LET oldEntry == existing[1]
              newEntry == [oldEntry EXCEPT !.data = logData,
                                           !.timestamp = toISOString(t)]
              s1 == [s EXCEPT !.logsDb = (@ \ {oldEntry}) \cup {newEntry}]
          IN Outcome(NeDB_updateStatisticsOnUpdate(s1, logName, oldEntry, newEntry),
                     "true")

NeDB_deleteLogEntryById(s0, logName, logId) ==
  LET s == NeDB_ensureInitialized(s0)
      existing == NeDB_getLogEntryById(s, logName, logId)
  IN IF existing = <<>> THEN Outcome(s, "false")
     ELSE LET entry == existing[1]
              s1 == [s EXCEPT !.logsDb = @ \ {entry}]
          IN Outcome(NeDB_updateStatisticsOnDelete(s1, logName, entry), "true")

NeDB_clearLog(s0, logName) ==
  LET s == NeDB_ensureInitialized(s0)
  IN IF Len(NeDB_getLogsByName(s, logName, 1)) = 0 THEN Outcome(s, "false")
     ELSE LET s1 == NeDB_updateStatisticsOnClear(s, logName)
          IN Outcome([s1 EXCEPT !.logsDb = {d \in @ : d.name # logName}], "true")

NeDB_getUniqueLogNames(s) == {d.name : d \in s.logsDb}

NeDB_getLogNames(s0, limit) == NeDB_getUniqueLogNames(NeDB_ensureInitialized(s0))

NeDB_getAggregateStatistics(s0) == NeDB_ensureInitialized(s0).statistics

NeDB_getLogStatistics(s0, logName) ==
  LET s == NeDB_ensureInitialized(s0)
  IN IF logName \in DOMAIN s.statistics.logStats
     THEN <<s.statistics.logStats[logName]>> ELSE <<>>

----------------------------------------------------------------------------
(* RedisStorageAdapter                                                     *)
(* The store behind the client: docs maps <<logName, logId>> to the        *)
(* serialized document, lognames is the name set, entries maps a log name  *)
(* to its sorted set (id -> score), stats maps the statistics keys to      *)
(* their integers.  A key that is not in a domain does not exist.          *)

Redis_new ==
  [docs |-> EmptyMap, lognames |-> {}, entries |-> EmptyMap,
   stats |-> EmptyMap, initialized |-> FALSE]

Redis_initialize(s) == IF s.initialized THEN s ELSE [s EXCEPT !.initialized = TRUE]

Redis_ensureInitialized(s) == IF ~s.initialized THEN Redis_initialize(s) ELSE s

\* statistics keys below getKey('stats:...')
TotalLogsKey == <<"totalLogs">>
TotalEntriesKey == <<"totalEntries">>
EntryCountKey(logName) == <<"log", logName, "entryCount">>
FirstKey(logName) == <<"log", logName, "firstEntryTimestamp">>
LastKey(logName) == <<"log", logName, "lastEntryTimestamp">>

\* GET, SET, INCRBY, DEL on the integer keys
Has(m, k) == k \in DOMAIN m
Set(m, k, v) == Put(m, k, v)
IncrBy(m, k, d) == Set(m, k, (IF Has(m, k) THEN m[k] ELSE 0) + d)
Del(m, K) == [x \in DOMAIN m \ K |-> m[x]]

\* JSON.stringify(document) and JSON.parse of it
Redis_stringifyDoc(document) == [document EXCEPT !.data = JSONstringify(@)]
Redis_parseDoc(text) == [text EXCEPT !.data = JSONparse(@)]

\* ZREVRANGE key 0 limit-1: by descending score, members of one score in
\* descending order; a stop index of -1 (limit 0) is the last element
Redis_zrevrange(s, logName, limit) ==
  LET zset == IF logName \in DOMAIN s.entries THEN s.entries[logName] ELSE EmptyMap
      ids == SortIds(DOMAIN zset, zset, "desc")
  IN IF limit = 0 THEN ids ELSE Slice(ids, limit)

Redis_getLogsByName(s0, logName, limit) ==
  LET s == Redis_ensureInitialized(s0)
      logIds == Redis_zrevrange(s, logName, limit)
      hits == SelectSeq(logIds, LAMBDA i : <<logName, i>> \in DOMAIN s.docs)
  IN [k \in 1..Len(hits) |-> Redis_parseDoc(s.docs[<<logName, hits[k]>>])]

Redis_updateStatisticsOnAdd(s0, logName, entry) ==
  LET s == Redis_ensureInitialized(s0)
      isNewLog == ~Has(s.stats, EntryCountKey(logName))
      timestamp == getTime(entry.timestamp)
      m1 == IncrBy(s.stats, TotalEntriesKey, 1)
      m2 == IncrBy(m1, EntryCountKey(logName), 1)
      m3 == IF isNewLog THEN IncrBy(m2, TotalLogsKey, 1) ELSE m2
      m4 == IF ~Falsy(timestamp)
               /\ (~Has(s.stats, FirstKey(logName)) \/ timestamp < s.stats[FirstKey(logName)])
            THEN Set(m3, FirstKey(logName), timestamp) ELSE m3
      m5 == IF ~Falsy(timestamp)
               /\ (~Has(s.stats, LastKey(logName)) \/ timestamp > s.stats[LastKey(logName)])
            THEN Set(m4, LastKey(logName), timestamp) ELSE m4
  IN [s EXCEPT !.stats = m5]

\* the loops of updateStatisticsOnUpdate over the other entries of the
\* page, entries[lo..hi] left to right: the earliest (dir = "first") or the
\* latest (dir = "last") timestamp, starting from acc
Redis_scanStep(entry, skipId, acc, dir) ==
  LET entryTimestamp == getTime(entry.timestamp)
      better == IF dir = "first" THEN entryTimestamp < acc ELSE entryTimestamp > acc
  IN IF entry.id # skipId /\ ~Falsy(entryTimestamp) /\ better
     THEN entryTimestamp ELSE acc

RECURSIVE Redis_scanOthers(_, _, _, _, _, _)
Redis_scanOthers(entries, lo, hi, skipId, acc, dir) ==
  IF lo > hi \/ ~Computed(acc) THEN acc
  ELSE Redis_scanOthers(entries, lo + 1, hi, skipId,
         Redis_scanStep(entries[lo], skipId, acc, dir), dir)

Redis_updateStatisticsOnUpdate(s0, logName, oldEntry, newEntry) ==
  LET s == Redis_ensureInitialized(s0)
      newTimestamp == getTime(newEntry.timestamp)
      oldTimestamp == getTime(oldEntry.timestamp)
      hasFirst == Has(s.stats, FirstKey(logName)) /\ ~Falsy(s.stats[FirstKey(logName)])
      hasLast == Has(s.stats, LastKey(logName)) /\ ~Falsy(s.stats[LastKey(logName)])
      m1 == IF ~Falsy(oldTimestamp) /\ hasFirst
               /\ oldTimestamp = s.stats[FirstKey(logName)]
            THEN Set(s.stats, FirstKey(logName),
                   LET entries == Redis_getLogsByName(s, logName, DefaultLimit)
                   IN Redis_scanOthers(entries, 1, Len(entries), newEntry.id,
                                       newTimestamp, "first"))
            ELSE IF ~hasFirst \/ newTimestamp < s.stats[FirstKey(logName)]
              THEN Set(s.stats, FirstKey(logName), newTimestamp)
              ELSE s.stats
      m2 == IF ~Falsy(oldTimestamp) /\ hasLast
               /\ oldTimestamp = s.stats[LastKey(logName)]
            THEN Set(m1, LastKey(logName),
                   LET entries == Redis_getLogsByName(s, logName, DefaultLimit)
                   IN Redis_scanOthers(entries, 1, Len(entries), newEntry.id,
                                       newTimestamp, "last"))
            ELSE IF ~hasLast \/ newTimestamp > s.stats[LastKey(logName)]
              THEN Set(m1, LastKey(logName), newTimestamp)
              ELSE m1
  IN IF Falsy(newTimestamp) THEN s ELSE [s EXCEPT !.stats = m2]

Redis_updateStatisticsOnDelete(s0, logName, entry) ==
  LET s == Redis_ensureInitialized(s0)
      m1 == IncrBy(s.stats, TotalEntriesKey, -1)
      m2 == IncrBy(m1, EntryCountKey(logName), -1)
      newCount == m2[EntryCountKey(logName)]
      timestamp == getTime(entry.timestamp)
      hasFirst == Has(m2, FirstKey(logName)) /\ ~Falsy(m2[FirstKey(logName)])
      hasLast == Has(m2, LastKey(logName)) /\ ~Falsy(m2[LastKey(logName)])
      entries == Redis_getLogsByName(s, logName, DefaultLimit)
      scanned == ScanTimestamps(entries, 1, Len(entries), NoStats)
      m3 == IF ~Falsy(scanned.firstEntryTimestamp)
            THEN Set(m2, FirstKey(logName), scanned.firstEntryTimestamp) ELSE m2
      m4 == IF ~Falsy(scanned.lastEntryTimestamp)
            THEN Set(m3, LastKey(logName), scanned.lastEntryTimestamp) ELSE m3
  IN IF newCount <= 0
     THEN [s EXCEPT !.stats =
             Del(IncrBy(m2, TotalLogsKey, -1),
                 {EntryCountKey(logName), FirstKey(logName), LastKey(logName)})]
     ELSE IF ~Falsy(timestamp)
             /\ ((hasFirst /\ timestamp = m2[FirstKey(logName)])
                 \/ (hasLast /\ timestamp = m2[LastKey(logName)]))
             /\ Len(entries) > 0
       THEN [s EXCEPT !.stats = m4]
       ELSE [s EXCEPT !.stats = m2]

Redis_updateStatisticsOnClear(s0, logName) ==
  LET s == Redis_ensureInitialized(s0)
      entryCount == IF Has(s.stats, EntryCountKey(logName))
                    THEN s.stats[EntryCountKey(logName)] ELSE 0
  IN IF entryCount > 0
     THEN [s EXCEPT !.stats =
             Del(IncrBy(IncrBy(@, TotalEntriesKey, -entryCount), TotalLogsKey, -1),
                 {EntryCountKey(logName), FirstKey(logName), LastKey(logName)})]
     ELSE s

\* ZADD key score member
Redis_zadd(entries, logName, score, logId) ==
  LET zset == IF logName \in DOMAIN entries THEN entries[logName] ELSE EmptyMap
  IN Set(entries, logName, Set(zset, logId, score))

\* ZREM key member; a sorted set that becomes empty no longer exists
Redis_zrem(entries, logName, logId) ==
  IF logName \notin DOMAIN entries THEN entries
  ELSE LET zset == Del(entries[logName], {logId})
       IN IF DOMAIN zset = {} THEN Del(entries, {logName})
          ELSE Set(entries, logName, zset)

Redis_storeLogEntry(s0, logId, logName, logData, t) ==
  LET s == Redis_ensureInitialized(s0)
      document == LogEntry(logId, logName, logData, t)
      s1 == [s EXCEPT
               !.docs = Set(@, <<logName, logId>>, Redis_stringifyDoc(document)),
               !.lognames = @ \cup {logName},
               !.entries = Redis_zadd(@, logName, getTime(document.timestamp), logId)]
  IN Outcome(Redis_updateStatisticsOnAdd(s1, logName, document), "ok")

Redis_getLogEntryById(s0, logName, logId) ==
  LET s == Redis_ensureInitialized(s0)
  IN IF <<logName, logId>> \in DOMAIN s.docs
     THEN <<Redis_parseDoc(s.docs[<<logName, logId>>])>> ELSE <<>>

Redis_updateLogEntryById(s0, logName, logId, logEntry, t) ==
  LET s == Redis_ensureInitialized(s0)
  IN IF <<logName, logId>> \notin DOMAIN s.docs THEN Outcome(s, "false")
     ELSE LET existing == Redis_parseDoc(s.docs[<<logName, logId>>])
              document == [existing EXCEPT !.data = logEntry,
                                           !.timestamp = toISOString(t)]
              s1 == [s EXCEPT
                       !.docs = Set(@, <<logName, logId>>, Redis_stringifyDoc(document)),
                       !.entries = Redis_zadd(@, logName,
                                     getTime(document.timestamp), logId)]
          IN Outcome(Redis_updateStatisticsOnUpdate(s1, logName, existing, document),
                     "true")

Redis_deleteLogEntryById(s0, logName, logId) ==
  LET s == Redis_ensureInitialized(s0)
  IN IF <<logName, logId>> \notin DOMAIN s.docs THEN Outcome(s, "false")
     ELSE LET entry == Redis_parseDoc(s.docs[<<logName, logId>>])
              s1 == [s EXCEPT !.docs = Del(@, {<<logName, logId>>}),
                              !.entries = Redis_zrem(@, logName, logId)]
          IN Outcome(Redis_updateStatisticsOnDelete(s1, logName, entry), "true")

Redis_clearLog(s0, logName) ==
  LET s == Redis_ensureInitialized(s0)
      logIds == IF logName \in DOMAIN s.entries THEN DOMAIN s.entries[logName] ELSE {}
  IN IF logIds = {} THEN Outcome(s, "false")
     ELSE LET s1 == [s EXCEPT !.docs = Del(@, {<<logName, i>> : i \in logIds}),
                              !.entries = Del(@, {logName}),
                              !.lognames = @ \ {logName}]
          IN Outcome(Redis_updateStatisticsOnClear(s1, logName), "true")

Redis_getLogNames(s0, limit) == Redis_ensureInitialized(s0).lognames

Redis_getLogStatistics(s0, logName) ==
  LET s == Redis_ensureInitialized(s0)
  IN IF ~Has(s.stats, EntryCountKey(logName)) THEN <<>>
     ELSE <<[entryCount |-> s.stats[EntryCountKey(logName)],
             firstEntryTimestamp |-> IF Has(s.stats, FirstKey(logName))
                                     THEN s.stats[FirstKey(logName)] ELSE Undefined,
             lastEntryTimestamp |-> IF Has(s.stats, LastKey(logName))
                                    THEN s.stats[LastKey(logName)] ELSE Undefined]>>

\* totalLogs and totalEntries from the counters, logStats for the names of
\* the name set whose entryCount is positive
Redis_getAggregateStatistics(s0) ==
  LET s == Redis_ensureInitialized(s0)
      reported == {n \in s.lognames :
                     Has(s.stats, EntryCountKey(n)) /\ s.stats[EntryCountKey(n)] > 0}
  IN [totalLogs |-> IF Has(s.stats, TotalLogsKey) THEN s.stats[TotalLogsKey] ELSE 0,
      totalEntries |-> IF Has(s.stats, TotalEntriesKey)
                       THEN s.stats[TotalEntriesKey] ELSE 0,
      logStats |-> [n \in reported |-> Redis_getLogStatistics(s, n)[1]]]

----------------------------------------------------------------------------
(* searchLogs                                                              *)
(* Options: query and logName are strings, "" when absent (falsy);         *)
(* startTime and endTime are <<>> when absent and <<stamp>> otherwise;     *)
(* fieldFilters is a sequence of <<path, value>> pairs, a path being the   *)
(* sequence of the parts of the dotted field name; limit is a number.      *)
(* names is the array getLogNames hands to the loop over all logs.         *)

\* String.prototype.toLowerCase
toLowerCase(text) ==
  LET UpperCase == <<"A", "B", "C", "D", "E", "F", "G", "H", "I", "J", "K", "L", "M",
                     "N", "O", "P", "Q", "R", "S", "T", "U", "V", "W", "X", "Y", "Z">>
      LowerCase == <<"a", "b", "c", "d", "e", "f", "g", "h", "i", "j", "k", "l", "m",
                     "n", "o", "p", "q", "r", "s", "t", "u", "v", "w", "x", "y", "z">>
  IN [i \in 1..Len(text) |->
        IF \E k \in 1..Len(UpperCase) : UpperCase[k] = text[i]
        THEN LowerCase[CHOOSE k \in 1..Len(UpperCase) : UpperCase[k] = text[i]]
        ELSE text[i]]

\* String.prototype.includes
includes(text, searchText) ==
  \E i \in 0..(Len(text) - Len(searchText)) :
    SubSeq(text, i + 1, i + Len(searchText)) = searchText

\* decimal digits of a number below 1000
DigitsOf(n) ==
  IF n < 10 THEN <<Digit[n + 1]>>
  ELSE IF n < 100 THEN <<Digit[(n \div 10) + 1], Digit[(n % 10) + 1]>>
  ELSE <<Digit[(n \div 100) + 1], Digit[((n \div 10) % 10) + 1], Digit[(n % 10) + 1]>>

\* the text of an ISO timestamp within the first second of the epoch
ISOText(stamp) ==
  LET n == getTime(stamp)
  IN <<"1", "9", "7", "0", "-", "0", "1", "-", "0", "1", "T",
       "0", "0", ":", "0", "0", ":", "0", "0", ".",
       Digit[(n \div 100) + 1], Digit[((n \div 10) % 10) + 1], Digit[(n % 10) + 1],
       "Z">>

Quoted(text) == <<"\"">> \o text \o <<"\"">>

\* JSON.stringify(entry): the fields id, name, data, timestamp in the order
\* the document was built
EntryText(entry) ==
  <<"{">> \o Quoted(<<"i", "d">>) \o <<":">> \o Quoted(DigitsOf(entry.id))
  \o <<",">> \o Quoted(<<"n", "a", "m", "e">>) \o <<":">> \o Quoted(<<entry.name>>)
  \o <<",">> \o Quoted(<<"d", "a", "t", "a">>) \o <<":">> \o JSONstringify(entry.data)
  \o <<",">> \o Quoted(<<"t", "i", "m", "e", "s", "t", "a", "m", "p">>) \o <<":">>
  \o Quoted(ISOText(entry.timestamp)) \o <<"}">>

\* JSON.stringify of a document read from logs.db: the datastore has added
\* the field _id, whose generated value is written "?"
NeDB_EntryText(entry) ==
  SubSeq(EntryText(entry), 1, Len(EntryText(entry)) - 1)
  \o <<",">> \o Quoted(<<"_", "i", "d">>) \o <<":">> \o Quoted(<<"?">>) \o <<"}">>

\* a JavaScript value: undefined, or a JSON value
JSUndefined == [t |-> "undefined", s |-> <<>>, n |-> 0]

\* obj[part] for an entry
EntryField(entry, part) ==
  CASE part = "id" -> JStr(DigitsOf(entry.id))
    [] part = "name" -> JStr(<<entry.name>>)
    [] part = "data" -> entry.data
    [] part = "timestamp" -> JStr(ISOText(entry.timestamp))
    [] OTHER -> JSUndefined

\* value[part] for a value below the entry
ValueField(value, part) ==
  IF value.t = "obj" /\ part = "level" THEN JStr(value.s) ELSE JSUndefined

\* a !== b is false: strict equality holds between equal primitives only
StrictEqual(a, b) == a.t \in {"str", "num", "undefined"} /\ a = b

\* getNestedProperty(entry, path): undefined once a part is missing
RECURSIVE Memory_walk(_, _, _)
Memory_walk(current, path, k) ==
  IF k > Len(path) THEN current
  ELSE IF current = JSUndefined THEN JSUndefined
  ELSE Memory_walk(ValueField(current, path[k]), path, k + 1)

Memory_getNestedProperty(entry, path) ==
  IF Len(path) = 0 THEN JSUndefined
  ELSE Memory_walk(EntryField(entry, path[1]), path, 2)

\* the inline traversal of the NeDB and Redis adapters: the entry is
\* dropped when a part is reached on undefined
RECURSIVE Inline_walk(_, _, _, _)
Inline_walk(current, path, k, value) ==
  IF k > Len(path) THEN StrictEqual(current, value)
  ELSE IF current = JSUndefined THEN FALSE
  ELSE Inline_walk(ValueField(current, path[k]), path, k + 1, value)

Inline_fieldMatches(entry, filter) ==
  IF Len(filter[1]) = 0 THEN FALSE
  ELSE Inline_walk(EntryField(entry, filter[1][1]), filter[1], 2, filter[2])

InTimeWindow(entry, options) ==
  /\ options.startTime # <<>> =>
       getTime(entry.timestamp) >= getTime(options.startTime[1])
  /\ options.endTime # <<>> =>
       getTime(entry.timestamp) <= getTime(options.endTime[1])

TextMatches(text, options) ==
  options.query # <<>> => includes(toLowerCase(text), toLowerCase(options.query))

Memory_filterEntries(entries, options) ==
  SelectSeq(entries, LAMBDA entry :
    /\ InTimeWindow(entry, options)
    /\ \A f \in 1..Len(options.fieldFilters) :
         StrictEqual(Memory_getNestedProperty(entry, options.fieldFilters[f][1]),
                     options.fieldFilters[f][2])
    /\ TextMatches(EntryText(entry), options))

NeDB_filterEntries(entries, options) ==
  SelectSeq(entries, LAMBDA entry :
    /\ InTimeWindow(entry, options)
    /\ \A f \in 1..Len(options.fieldFilters) :
         Inline_fieldMatches(entry, options.fieldFilters[f])
    /\ TextMatches(NeDB_EntryText(entry), options))

\* (no time filter here: getLogEntriesWithTimeFilter has applied it)
Redis_filterEntries(entries, options) ==
  SelectSeq(entries, LAMBDA entry :
    /\ \A f \in 1..Len(options.fieldFilters) :
         Inline_fieldMatches(entry, options.fieldFilters[f])
    /\ TextMatches(EntryText(entry), options))

\* entries.map(entry => ({logName, entry}))
Hits(logName, entries) ==
  [k \in 1..Len(entries) |-> [logName |-> logName, entry |-> entries[k]]]

\* the loop over all logs: filtered[name] is the filtered entries of the
\* log, results the result so far (resultCount is its length)
RECURSIVE SearchLoop(_, _, _, _, _)
SearchLoop(names, k, limit, results, filtered) ==
  IF k > Len(names) \/ Len(results) >= limit THEN results
  ELSE LET filteredEntries == filtered[names[k]]
           room == limit - Len(results)
           countToAdd == IF Len(filteredEntries) < room
                         THEN Len(filteredEntries) ELSE room
       IN SearchLoop(names, k + 1, limit,
            results \o Hits(names[k], SubSeq(filteredEntries, 1, countToAdd)),
            filtered)

\* the entries one search reads of a log
SearchFetch == DefaultLimit * 10

Memory_searchLogs(s, options, names) ==
  IF options.logName # ""
  THEN Hits(options.logName,
         Slice(Memory_filterEntries(
                 Memory_getLogsByName(s, options.logName, SearchFetch), options),
               options.limit))
  ELSE SearchLoop(names, 1, options.limit, <<>>,
         [n \in {names[k] : k \in 1..Len(names)} |->
            Memory_filterEntries(Memory_getLogsByName(s, n, SearchFetch), options)])

NeDB_searchLogs(s0, options, names) ==
  LET s == NeDB_ensureInitialized(s0)
  IN IF options.logName # ""
     THEN Hits(options.logName,
            Slice(NeDB_filterEntries(
                    NeDB_getLogsByName(s, options.logName, SearchFetch), options),
                  options.limit))
     ELSE SearchLoop(names, 1, options.limit, <<>>,
            [n \in {names[k] : k \in 1..Len(names)} |->
               NeDB_filterEntries(NeDB_getLogsByName(s, n, SearchFetch), options)])

\* ZREVRANGEBYSCORE key endScore startScore LIMIT 0 limit: the members
\* whose score lies within the bounds, by descending score, at most limit
Redis_getLogEntriesWithTimeFilter(s, logName, options, limit) ==
  LET zset == IF logName \in DOMAIN s.entries THEN s.entries[logName] ELSE EmptyMap
      inRange == {i \in DOMAIN zset :
                    /\ options.startTime # <<>> =>
                         zset[i] >= getTime(options.startTime[1])
                    /\ options.endTime # <<>> =>
                         zset[i] <= getTime(options.endTime[1])}
      logIds == Slice(SortIds(inRange, zset, "desc"), limit)
      hits == SelectSeq(logIds, LAMBDA i : <<logName, i>> \in DOMAIN s.docs)
  IN [k \in 1..Len(hits) |-> Redis_parseDoc(s.docs[<<logName, hits[k]>>])]

Redis_searchLogs(s0, options, names) ==
  LET s == Redis_ensureInitialized(s0)
  IN IF options.logName # ""
     THEN Hits(options.logName,
            Redis_filterEntries(
              Redis_getLogEntriesWithTimeFilter(s, options.logName, options,
                                                options.limit),
              options))
     ELSE SearchLoop(names, 1, options.limit, <<>>,
            [n \in {names[k] : k \in 1..Len(names)} |->
               Redis_filterEntries(
                 Redis_getLogEntriesWithTimeFilter(s, n, options, options.limit),
                 options)])

----------------------------------------------------------------------------
(* Calls during an outage of the underlying store: every command sent to   *)
(* the datastore or to the Redis client rejects.  The first command of the *)
(* handler fails, so nothing is written; what the caller gets is decided   *)
(* by the catch blocks: "throws" (a rejected promise), "false", or "empty" *)
(* (an empty array).                                                       *)

ReadOps == {"getLogsByName", "getLogNames", "searchLogs"}
WriteOps == {"store", "update", "delete", "clear"}

\* ensureInitialized is outside the try blocks: on an instance that is not
\* initialized, initialize() rejects and so does the call.  clearLog first
\* reads through getLogsByName, which swallows the error and returns [].
NeDB_whenStoreFails(s, op) ==
  IF ~s.initialized THEN Outcome(s, "throws")
  ELSE CASE op = "store" -> Outcome(s, "throws")
         [] op = "update" -> Outcome(s, "false")
         [] op = "delete" -> Outcome(s, "false")
         [] op = "clear" -> Outcome(s, "false")
         [] op \in ReadOps -> Outcome(s, "empty")

\* the Redis adapter with read handlers that rethrow
Redis_whenStoreFails_rethrows(s, op) ==
  IF ~s.initialized THEN Outcome(s, "throws")
  ELSE CASE op = "store" -> Outcome(s, "throws")
         [] op = "update" -> Outcome(s, "false")
         [] op = "delete" -> Outcome(s, "false")
         [] op = "clear" -> Outcome(s, "throws")
         [] op \in ReadOps -> Outcome(s, "throws")

Redis_whenStoreFails(s, op) ==
  IF ~s.initialized THEN Outcome(s, "throws")
  ELSE CASE op = "store" -> Outcome(s, "throws")
         [] op = "update" -> Outcome(s, "false")
         [] op = "delete" -> Outcome(s, "false")
         [] op = "clear" -> Outcome(s, "throws")
         [] op \in ReadOps -> Outcome(s, "empty")

----------------------------------------------------------------------------
(* The StorageAdapter interface: dispatch on the class of the instance     *)

Adapter_new(b) ==
  CASE b = "memory" -> Memory_new
    [] b = "nedb" -> NeDB_new
    [] b = "redis" -> Redis_new

Adapter_storeLogEntry(b, s, logId, logName, logData, t) ==
  CASE b = "memory" -> Memory_storeLogEntry(s, logId, logName, logData, t)
    [] b = "nedb" -> NeDB_storeLogEntry(s, logId, logName, logData, t)
    [] b = "redis" -> Redis_storeLogEntry(s, logId, logName, logData, t)

Adapter_updateLogEntryById(b, s, logName, logId, logData, t) ==
  CASE b = "memory" -> Memory_updateLogEntryById(s, logName, logId, logData, t)
    [] b = "nedb" -> NeDB_updateLogEntryById(s, logName, logId, logData, t)
    [] b = "redis" -> Redis_updateLogEntryById(s, logName, logId, logData, t)

Adapter_deleteLogEntryById(b, s, logName, logId) ==
  CASE b = "memory" -> Memory_deleteLogEntryById(s, logName, logId)
    [] b = "nedb" -> NeDB_deleteLogEntryById(s, logName, logId)
    [] b = "redis" -> Redis_deleteLogEntryById(s, logName, logId)

Adapter_clearLog(b, s, logName) ==
  CASE b = "memory" -> Memory_clearLog(s, logName)
    [] b = "nedb" -> NeDB_clearLog(s, logName)
    [] b = "redis" -> Redis_clearLog(s, logName)

Adapter_getLogEntryById(b, s, logName, logId) ==
  CASE b = "memory" -> Memory_getLogEntryById(s, logName, logId)
    [] b = "nedb" -> NeDB_getLogEntryById(s, logName, logId)
    [] b = "redis" -> Redis_getLogEntryById(s, logName, logId)

Adapter_getLogsByName(b, s, logName, limit) ==
  CASE b = "memory" -> Memory_getLogsByName(s, logName, limit)
    [] b = "nedb" -> NeDB_getLogsByName(s, logName, limit)
    [] b = "redis" -> Redis_getLogsByName(s, logName, limit)

Adapter_getLogNames(b, s, limit) ==
  CASE b = "memory" -> Memory_getLogNames(s, limit)
    [] b = "nedb" -> NeDB_getLogNames(s, limit)
    [] b = "redis" -> Redis_getLogNames(s, limit)

Adapter_searchLogs(b, s, options, names) ==
  CASE b = "memory" -> Memory_searchLogs(s, options, names)
    [] b = "nedb" -> NeDB_searchLogs(s, options, names)
    [] b = "redis" -> Redis_searchLogs(s, options, names)

Adapter_getAggregateStatistics(b, s) ==
  CASE b = "memory" -> Memory_getAggregateStatistics(s)
    [] b = "nedb" -> NeDB_getAggregateStatistics(s)
    [] b = "redis" -> Redis_getAggregateStatistics(s)

Adapter_getLogStatistics(b, s, logName) ==
  CASE b = "memory" -> Memory_getLogStatistics(s, logName)
    [] b = "nedb" -> NeDB_getLogStatistics(s, logName)
    [] b = "redis" -> Redis_getLogStatistics(s, logName)

Adapter_initialize(b, s) ==
  CASE b = "memory" -> Memory_initialize(s)
    [] b = "nedb" -> NeDB_initialize(s)
    [] b = "redis" -> Redis_initialize(s)

----------------------------------------------------------------------------
(* What a caller observes of the instance under test                       *)

AggregateStatistics == Adapter_getAggregateStatistics(backend, adapter)
LogStatistics(name) == Adapter_getLogStatistics(backend, adapter, name)
EntryById(name, id) == Adapter_getLogEntryById(backend, adapter, name, id)
LogNames == Adapter_getLogNames(backend, adapter, NoLimit)
\* every entry of the log, newest first
AllEntries(name) == Adapter_getLogsByName(backend, adapter, name, NoLimit)

----------------------------------------------------------------------------
(* StorageAdapterFactory                                                   *)
(* options: type is "none" when not given; dbPath and inMemoryOnly are     *)
(* their truthiness.  fs is the file system the call meets: whether the    *)
(* directories dbPath and dbPath/namespace exist, whether mkdirSync        *)
(* throws, whether the NeDBStorageAdapter constructor throws.  The result  *)
(* is the class of the adapter returned and its namespace; "raised" is a   *)
(* call that throws.                                                       *)

Created(class, namespace) == [class |-> class, namespace |-> namespace]

\* createAdapter without the try/catch around the NeDB branch
createAdapter_rethrows(namespace, options, fs) ==
  IF options.type = "redis" THEN Created("redis", namespace)
  ELSE IF options.inMemoryOnly \/ options.type = "memory"
  THEN Created("memory", namespace)
  ELSE IF options.type = "nedb" /\ options.dbPath
  THEN LET mkdirCalled == ~fs.dbDir \/ ~fs.namespaceDir
           threw == (mkdirCalled /\ fs.mkdirFails) \/ fs.constructorFails
       IN IF threw THEN Created("raised", namespace)
          ELSE Created("nedb", namespace)
  ELSE Created("memory", namespace)

createAdapter(namespace, options, fs) ==
  IF options.type = "redis" THEN Created("redis", namespace)
  ELSE IF options.inMemoryOnly \/ options.type = "memory"
  THEN Created("memory", namespace)
  ELSE IF options.type = "nedb" /\ options.dbPath
  THEN LET mkdirCalled == ~fs.dbDir \/ ~fs.namespaceDir
           threw == (mkdirCalled /\ fs.mkdirFails) \/ fs.constructorFails
       IN IF threw THEN Created("memory", namespace)
          ELSE Created("nedb", namespace)
  ELSE Created("memory", namespace)

----------------------------------------------------------------------------
(* NamespacedStorageAdapterFactory                                         *)
(* adapters is the static cache, namespace -> instance; instances lists    *)
(* the adapters constructed so far, each with its namespace and the state  *)
(* of the initialize() that getAdapter started on it.  getAdapter has no   *)
(* await: one call runs from the cache test to the return in one turn of   *)
(* the event loop.                                                         *)

Registry_new == [adapters |-> EmptyMap, instances |-> <<>>]

\* getAdapter that constructs without consulting the cache
Registry_getAdapter_uncached(r, namespace, type) ==
  LET instance == Len(r.instances) + 1
      started == [namespace |-> namespace,
                  status |-> IF type = "memory" THEN "initialized" ELSE "initializing"]
  IN Outcome([adapters |-> Put(r.adapters, namespace, instance),
              instances |-> Append(r.instances, started)],
             instance)

\* getAdapter(namespace, {type}): the Memory adapter's initialize() has no
\* await and is done when the call returns; the others are pending
Registry_getAdapter(r, namespace, type) ==
  IF namespace \in DOMAIN r.adapters
  THEN Outcome(r, r.adapters[namespace])
  ELSE LET instance == Len(r.instances) + 1
           started == [namespace |-> namespace,
                       status |-> IF type = "memory" THEN "initialized"
                                  ELSE "initializing"]
       IN Outcome([adapters |-> Put(r.adapters, namespace, instance),
                   instances |-> Append(r.instances, started)],
                  instance)

\* the pending initialize() of an instance resolves, or rejects into the
\* catch handler that logs the error
Registry_settle(r, instance, status) ==
  [r EXCEPT !.instances[instance].status = status]

----------------------------------------------------------------------------
(* Calls.  A call that stamps an entry reads the clock once; the clock has *)
(* not moved since the previous reading or has moved on.                   *)

NoCall == [op |-> "none", name |-> "", id |-> 0, data |-> JNum(0), result |-> ""]

Call(op, name, id, data, result) ==
  [op |-> op, name |-> name, id |-> id, data |-> data, result |-> result]

ClockReads(maxTime) == {t \in {now, now + 1} : t <= maxTime}

\* the Memory adapter's array of one log stays within cap entries
Room(name, cap) ==
  backend = "memory" /\ name \in DOMAIN adapter.logs => Len(adapter.logs[name]) < cap

\* the counters stay within the model: totalLogs does not sink below
\* -MaxDrift and totalEntries does not exceed maxEntries
Within(s, maxEntries) ==
  LET agg == Adapter_getAggregateStatistics(backend, s)
  IN agg.totalLogs >= -MaxDrift /\ agg.totalEntries <= maxEntries

StoreLogEntry(id, name, data, t, cap, maxEntries) ==
  /\ Room(name, cap)
  /\ LET r == Adapter_storeLogEntry(backend, adapter, id, name, data, t)
     IN /\ Within(r.state, maxEntries)
        /\ adapter' = r.state
        /\ last' = Call("store", name, id, data, r.result)
  /\ now' = t
  /\ UNCHANGED <<backend, registry>>

UpdateLogEntryById(name, id, data, t) ==
  /\ LET r == Adapter_updateLogEntryById(backend, adapter, name, id, data, t)
     IN /\ adapter' = r.state
        /\ last' = Call("update", name, id, data, r.result)
  /\ now' = t
  /\ UNCHANGED <<backend, registry>>

DeleteLogEntryById(name, id, maxEntries) ==
  /\ LET r == Adapter_deleteLogEntryById(backend, adapter, name, id)
     IN /\ Within(r.state, maxEntries)
        /\ adapter' = r.state
        /\ last' = Call("delete", name, id, JNum(0), r.result)
  /\ UNCHANGED <<backend, now, registry>>

ClearLog(name, maxEntries) ==
  /\ LET r == Adapter_clearLog(backend, adapter, name)
     IN /\ Within(r.state, maxEntries)
        /\ adapter' = r.state
        /\ last' = Call("clear", name, 0, JNum(0), r.result)
  /\ UNCHANGED <<backend, now, registry>>

Init ==
  /\ backend \in Backends
  /\ now = 1
  /\ adapter = Adapter_new(backend)
  /\ last = NoCall
  /\ registry = Registry_new

Next ==
  \E name \in Names :
    \/ \E id \in Ids, t \in ClockReads(MaxTime) :
         StoreLogEntry(id, name, Payload, t, MaxLen, MaxEntries)
    \/ \E id \in Ids, t \in ClockReads(MaxTime) :
         UpdateLogEntryById(name, id, Payload, t)
    \/ \E id \in Ids : DeleteLogEntryById(name, id, MaxEntries)
    \/ ClearLog(name, MaxEntries)

Spec == Init /\ [][Next]_vars

\* callers that never store under an id the log already holds
NextDistinct ==
  \E name \in Names :
    \/ \E id \in Ids, t \in ClockReads(MaxTime) :
         /\ EntryById(name, id) = <<>>
         /\ StoreLogEntry(id, name, Payload, t, MaxLen, MaxEntries)
    \/ \E id \in Ids, t \in ClockReads(MaxTime) :
         UpdateLogEntryById(name, id, Payload, t)
    \/ \E id \in Ids : DeleteLogEntryById(name, id, MaxEntries)
    \/ ClearLog(name, MaxEntries)

SpecDistinct == Init /\ [][NextDistinct]_vars

\* callers that also call initialize() at any point, and close and reopen
\* the instance backed by files
Initialize ==
  /\ adapter' = Adapter_initialize(backend, adapter)
  /\ last' = Call("initialize", "", 0, JNum(0), "ok")
  /\ UNCHANGED <<backend, now, registry>>

Close ==
  /\ backend = "nedb"
  /\ adapter' = NeDB_close(adapter)
  /\ last' = Call("close", "", 0, JNum(0), "ok")
  /\ UNCHANGED <<backend, now, registry>>

NextLifecycle ==
  \/ NextDistinct
  \/ Initialize
  \/ Close

SpecLifecycle == Init /\ [][NextLifecycle]_vars

\* callers of the backends that have an underlying store, which is down
\* during some of the calls
StoreFails(op, name) ==
  /\ backend \in {"nedb", "redis"}
  /\ LET r == IF backend = "nedb" THEN NeDB_whenStoreFails(adapter, op)
              ELSE Redis_whenStoreFails(adapter, op)
     IN /\ adapter' = r.state
        /\ last' = Call(op, name, 0, JNum(0), r.result) @@ [outage |-> TRUE]
  /\ UNCHANGED <<backend, now, registry>>

NextOutage ==
  \/ NextDistinct
  \/ \E op \in WriteOps \cup ReadOps, name \in Names : StoreFails(op, name)

SpecOutage == Init /\ [][NextOutage]_vars

\* callers that store and update with every payload, within DataTime ms
NextData ==
  \E name \in Names :
    \/ \E id \in Ids, data \in Payloads, t \in ClockReads(DataTime) :
         StoreLogEntry(id, name, data, t, MaxLen, MaxEntries)
    \/ \E id \in Ids, data \in Payloads, t \in ClockReads(DataTime) :
         UpdateLogEntryById(name, id, data, t)
    \/ \E id \in Ids : DeleteLogEntryById(name, id, MaxEntries)
    \/ ClearLog(name, MaxEntries)

SpecData == Init /\ [][NextData]_vars

----------------------------------------------------------------------------
(* Logs larger than a page of getLogsByName.  The instance holds log "L"   *)
(* with LargeN entries, stored one per millisecond under the ids           *)
(* 1..LargeN; the callers then work on the oldest and the newest entries   *)
(* with pairwise distinct ids.                                             *)

LargeN == DefaultLimit + 2

RECURSIVE Fill(_, _, _, _)
Fill(b, s, i, n) ==
  IF i > n \/ ~Computed(s) THEN s
  ELSE Fill(b, Adapter_storeLogEntry(b, s, i, "L", Payload, i).state, i + 1, n)

LargeTouch == {1, LargeN + 1}

InitLarge ==
  /\ backend \in Backends
  /\ now = LargeN
  /\ adapter = Fill(backend, Adapter_new(backend), 1, LargeN)
  /\ last = Call("store", "L", LargeN, Payload, "ok")
  /\ registry = Registry_new

NextLarge ==
  \/ \E id \in LargeTouch, t \in ClockReads(LargeN + LargeSpan) :
       /\ EntryById("L", id) = <<>>
       /\ StoreLogEntry(id, "L", Payload, t, LargeN + 2, LargeN + 1)
  \/ \E id \in LargeTouch, t \in ClockReads(LargeN + LargeSpan) :
       UpdateLogEntryById("L", id, Payload, t)
  \/ \E id \in LargeTouch : DeleteLogEntryById("L", id, LargeN + 1)
  \/ ClearLog("L", LargeN + 1)

SpecLarge == InitLarge /\ [][NextLarge]_vars

----------------------------------------------------------------------------
(* What a caller can retrieve                                              *)

\* the number of entries of the log that getLogsByName hands out
LiveCount(name) == Len(AllEntries(name))

\* the logs that hold at least one entry
LiveNames == {n \in Names : LiveCount(n) >= 1}

\* the epoch-ms timestamps of the entries of the log
Timestamps(name) ==
  {getTime(AllEntries(name)[i].timestamp) : i \in 1..LiveCount(name)}

Minimum(S) == CHOOSE x \in S : \A y \in S : x <= y
Maximum(S) == CHOOSE x \in S : \A y \in S : x >= y

----------------------------------------------------------------------------
(* Statistics consistency                                                  *)

\* C1: after every call, getAggregateStatistics().totalEntries equals the
\* number of entries retrievable across all logs (ids chosen freely).
C1_TotalEntriesIsLiveCount ==
  AggregateStatistics.totalEntries = SumOver([n \in Names |-> LiveCount(n)], Names)

\* C2: after every call, getAggregateStatistics().totalLogs equals the
\* number of log names that hold at least one live entry.
C2_TotalLogsIsLiveLogs ==
  AggregateStatistics.totalLogs = Cardinality(LiveNames)

\* C3: after every call, a log with at least one entry has statistics whose
\* entryCount is its number of live entries, also for a log of more entries
\* than the default page of getLogsByName.
C3_EntryCountIsLiveCount ==
  \A n \in LiveNames :
    /\ LogStatistics(n) # <<>>
    /\ LogStatistics(n)[1].entryCount = LiveCount(n)

\* C24: after every call, every log statistics record that has both
\* timestamps has firstEntryTimestamp <= lastEntryTimestamp.
C24_FirstNotAfterLast ==
  \A n \in Names :
    LogStatistics(n) # <<>> =>
      LET stats == LogStatistics(n)[1]
      IN stats.firstEntryTimestamp # Undefined /\ stats.lastEntryTimestamp # Undefined
           => stats.firstEntryTimestamp <= stats.lastEntryTimestamp

\* a delete of the oldest or newest entry has made the adapter compute the
\* two timestamps again, and they differ
C24_Witness ==
  /\ last.op = "delete" /\ last.result = "true"
  /\ LogStatistics(last.name) # <<>>
  /\ LogStatistics(last.name)[1].firstEntryTimestamp # Undefined
  /\ LogStatistics(last.name)[1].firstEntryTimestamp
       < LogStatistics(last.name)[1].lastEntryTimestamp

\* C25: after every call, totalLogs, totalEntries and every reported
\* entryCount are at least 0.
C25_CountersAreNonNegative ==
  /\ AggregateStatistics.totalLogs >= 0
  /\ AggregateStatistics.totalEntries >= 0
  /\ \A n \in Names :
       LogStatistics(n) # <<>> => LogStatistics(n)[1].entryCount >= 0
  /\ \A n \in DOMAIN AggregateStatistics.logStats :
       AggregateStatistics.logStats[n].entryCount >= 0

----------------------------------------------------------------------------
(* Entries                                                                 *)

\* C4: when storeLogEntry(id, name, data) has returned successfully,
\* getLogEntryById(name, id) returns an entry with that id, that name and
\* data equal to the value just stored.
C4_StoreThenGetRoundTrip ==
  last.op = "store" /\ last.result = "ok" =>
    /\ EntryById(last.name, last.id) # <<>>
    /\ EntryById(last.name, last.id)[1].id = last.id
    /\ EntryById(last.name, last.id)[1].name = last.name
    /\ EntryById(last.name, last.id)[1].data = last.data

\* C5: getLogsByName(name) never holds two entries with the same id; a
\* store under an existing (name, id) replaces the existing entry.
C5_OneEntryPerId ==
  \A n \in Names :
    \A i, j \in 1..LiveCount(n) :
      AllEntries(n)[i].id = AllEntries(n)[j].id => i = j

----------------------------------------------------------------------------
(* Deletion                                                                *)

\* C6: when the entries of a log, stored under distinct ids, have all been
\* deleted by id, getLogStatistics(name) is absent and
\* getAggregateStatistics().logStats has no record of the name; and after
\* a delete or a clear no log is reported with entryCount <= 0.
C6_EmptiedLogHasNoStatistics ==
  /\ last.op = "delete" /\ last.result = "true" /\ LiveCount(last.name) = 0 =>
       /\ LogStatistics(last.name) = <<>>
       /\ last.name \notin DOMAIN AggregateStatistics.logStats
  /\ last.op \in {"delete", "clear"} =>
       /\ \A n \in Names :
            LogStatistics(n) # <<>> => LogStatistics(n)[1].entryCount > 0
       /\ \A n \in DOMAIN AggregateStatistics.logStats :
            AggregateStatistics.logStats[n].entryCount > 0

\* a successful delete has taken the last entry of a log while the other
\* log still holds entries and statistics
C6_Witness ==
  /\ last.op = "delete" /\ last.result = "true"
  /\ LiveCount(last.name) = 0
  /\ LogStatistics(last.name) = <<>>
  /\ \E n \in Names \ {last.name} :
       LiveCount(n) >= 1 /\ LogStatistics(n) # <<>>

\* C7: getLogNames() returns exactly the names of the logs that hold at
\* least one live entry; a log emptied by deleteLogEntryById is not listed.
C7_LogNamesAreLiveLogs ==
  LogNames = LiveNames

\* C8: after a successful deleteLogEntryById that leaves the log with at
\* least one entry, firstEntryTimestamp and lastEntryTimestamp of
\* getLogStatistics(name) are the minimum and the maximum timestamp of the
\* surviving entries, for a log of any size.
C8_DeleteRecomputesTimestamps ==
  last.op = "delete" /\ last.result = "true" /\ LiveCount(last.name) >= 1 =>
    /\ LogStatistics(last.name) # <<>>
    /\ LogStatistics(last.name)[1].firstEntryTimestamp
         = Minimum(Timestamps(last.name))
    /\ LogStatistics(last.name)[1].lastEntryTimestamp
         = Maximum(Timestamps(last.name))

\* C9: after a successful updateLogEntryById, firstEntryTimestamp and
\* lastEntryTimestamp of getLogStatistics(name) are the minimum and the
\* maximum timestamp of the current entries, for a log of any size.
C9_UpdateRecomputesTimestamps ==
  last.op = "update" /\ last.result = "true" =>
    /\ LogStatistics(last.name) # <<>>
    /\ LogStatistics(last.name)[1].firstEntryTimestamp
         = Minimum(Timestamps(last.name))
    /\ LogStatistics(last.name)[1].lastEntryTimestamp
         = Maximum(Timestamps(last.name))

\* C10: clearLog(name) followed by one successful storeLogEntry(id, name,
\* data) leaves getLogStatistics(name) with entryCount = 1 and with
\* firstEntryTimestamp = lastEntryTimestamp = the timestamp of the new entry.
C10_ClearThenStore ==
  [][ \A n \in Names :
        /\ last.op = "clear" /\ last.name = n
        /\ last'.op = "store" /\ last'.name = n /\ last'.result = "ok"
        => /\ LogStatistics(n)' # <<>>
           /\ LogStatistics(n)'[1].entryCount = 1
           /\ LogStatistics(n)'[1].firstEntryTimestamp = now'
           /\ LogStatistics(n)'[1].lastEntryTimestamp = now' ]_vars

----------------------------------------------------------------------------
(* clearLog and the calls that find nothing                                *)

\* C11: clearLog(name) returns true exactly when the log held at least one
\* entry before the call, and false exactly when it held none.
C11_ClearLogResult ==
  [][ last'.op = "clear" =>
        (last'.result = "true" <=> LiveCount(last'.name) >= 1) ]_vars

\* C12: a successful clearLog(name) removes every entry of the log and its
\* statistics record, lowers totalEntries by the number of entries the log
\* held and totalLogs by one, and leaves every other log's entries and
\* statistics record unchanged.
C12_ClearLogEffect ==
  [][ \A n \in Names :
        last'.op = "clear" /\ last'.name = n /\ last'.result = "true" =>
          /\ LiveCount(n)' = 0
          /\ LogStatistics(n)' = <<>>
          /\ n \notin DOMAIN AggregateStatistics'.logStats
          /\ AggregateStatistics'.totalEntries
               = AggregateStatistics.totalEntries - LiveCount(n)
          /\ AggregateStatistics'.totalLogs = AggregateStatistics.totalLogs - 1
          /\ \A m \in Names \ {n} :
               /\ AllEntries(m)' = AllEntries(m)
               /\ LogStatistics(m)' = LogStatistics(m) ]_vars

\* C13: updateLogEntryById and deleteLogEntryById on a (name, id) that has
\* no entry return false and leave the entries, the log names and the
\* statistics as they were.
C13_MissingEntryIsNoOp ==
  [][ /\ last'.op \in {"update", "delete"}
      /\ EntryById(last'.name, last'.id) = <<>>
      => /\ last'.result = "false"
         /\ \A m \in Names : AllEntries(m)' = AllEntries(m)
         /\ LogNames' = LogNames
         /\ AggregateStatistics' = AggregateStatistics
         /\ \A m \in Names : LogStatistics(m)' = LogStatistics(m) ]_vars

\* an update or a delete has found no entry under its id in a log that
\* holds an entry under another id
C13_Witness ==
  /\ last.op \in {"update", "delete"}
  /\ last.result = "false"
  /\ EntryById(last.name, last.id) = <<>>
  /\ LiveCount(last.name) >= 1

----------------------------------------------------------------------------
(* getLogsByName                                                           *)

\* the limits the callers of getLogsByName pass
Limits == 0..(MaxLen + 1)

Page(name, limit) == Adapter_getLogsByName(backend, adapter, name, limit)

\* C14: getLogsByName(name, limit) returns min(limit, n) entries of the
\* log, n its number of live entries: the ones with the greatest
\* timestamps, by non-increasing timestamp; never more than limit entries.
C14_PageIsNewestLimit ==
  \A name \in Names, limit \in Limits :
    LET page == Page(name, limit)
        ms(k) == getTime(page[k].timestamp)
    IN /\ Len(page) = IF limit < LiveCount(name) THEN limit ELSE LiveCount(name)
       /\ \A k \in 1..(Len(page) - 1) : ms(k) >= ms(k + 1)
       /\ \A k \in 1..Len(page) :
            \E i \in 1..LiveCount(name) : AllEntries(name)[i] = page[k]
       /\ \A i \in 1..LiveCount(name) :
            (\E k \in 1..Len(page) : getTime(AllEntries(name)[i].timestamp) > ms(k))
            => \E k \in 1..Len(page) : page[k] = AllEntries(name)[i]

----------------------------------------------------------------------------
(* Searches.  searchLogs changes nothing, so a search is an observation of *)
(* the state: every property below speaks of the searches a caller can     *)
(* make in the state.                                                      *)

\* the orders in which getLogNames can hand out the names of the instance
NameOrders ==
  LET S == Adapter_getLogNames(backend, adapter, NoLimit)
  IN {o \in UNION {[1..k -> S] : k \in {Cardinality(S)}} :
        \A i, j \in 1..Cardinality(S) : i # j => o[i] # o[j]}

LevelPath == <<"data", "level">>
DeepPath == <<"data", "level", "x">>

\* the filters callers pass: none, data.level = "e", data.level.x = undefined
FieldFilterChoices ==
  {<<>>, << <<LevelPath, JStr(<<"e">>)>> >>, << <<DeepPath, JSUndefined>> >>}

\* the filters whose values JSON can carry
JsonFilterChoices == {<<>>, << <<LevelPath, JStr(<<"e">>)>> >>}

QueryChoices == {<<>>, <<"L", "E", "V">>, <<"_", "i", "d">>}

SearchLimits == 0..MaxLen

OptionsOver(filters, queries) ==
  [query : queries,
   logName : {""} \cup Names,
   startTime : {<<>>, <<toISOString(DataTime)>>},
   endTime : {<<>>, <<toISOString(1)>>},
   fieldFilters : filters,
   limit : SearchLimits]

SearchOptions == OptionsOver(FieldFilterChoices, QueryChoices)

Search(options, names) == Adapter_searchLogs(backend, adapter, options, names)

\* the JSON text of an entry the instance returns
TextOf(entry) ==
  IF backend = "nedb" THEN NeDB_EntryText(entry) ELSE EntryText(entry)

\* nested traversal of the entry along path[k..]: <<>> when an intermediate
\* field is missing, <<value>> otherwise
RECURSIVE Resolve(_, _, _)
Resolve(current, path, k) ==
  IF k > Len(path) THEN <<current>>
  ELSE IF current = JSUndefined THEN <<>>
  ELSE Resolve(ValueField(current, path[k]), path, k + 1)

\* the entry satisfies every criterion the options supply
Satisfies(entry, options) ==
  /\ options.startTime # <<>> =>
       getTime(entry.timestamp) >= getTime(options.startTime[1])
  /\ options.endTime # <<>> =>
       getTime(entry.timestamp) <= getTime(options.endTime[1])
  /\ \A f \in 1..Len(options.fieldFilters) :
       LET path == options.fieldFilters[f][1]
           found == Resolve(EntryField(entry, path[1]), path, 2)
       IN found # <<>> /\ StrictEqual(found[1], options.fieldFilters[f][2])
  /\ options.query # <<>> =>
       includes(toLowerCase(TextOf(entry)), toLowerCase(options.query))

\* the matching entries of one log, newest first
Matching(name, options) ==
  SelectSeq(AllEntries(name), LAMBDA entry : Satisfies(entry, options))

\* the matching entries of the candidate logs in the order of the names
RECURSIVE MatchingAll(_, _, _)
MatchingAll(names, k, options) ==
  IF k > Len(names) THEN <<>>
  ELSE Hits(names[k], Matching(names[k], options))
       \o MatchingAll(names, k + 1, options)

Candidates(options, names) ==
  IF options.logName # "" THEN Hits(options.logName, Matching(options.logName, options))
  ELSE MatchingAll(names, 1, options)

\* C15: searchLogs returns the first min(limit, M) of the M matching
\* entries of the candidate logs, the names in the order of the backend and
\* the entries of one name newest first.
C15_SearchReturnsFirstMatches ==
  \A options \in OptionsOver(JsonFilterChoices, QueryChoices), names \in NameOrders :
    Search(options, names) = Slice(Candidates(options, names), options.limit)

\* C16: every pair searchLogs returns holds an entry stored under its
\* logName (the requested one when given) that satisfies every supplied
\* criterion, and the result has no more than limit elements.
C16_SearchResultsSatisfyCriteria ==
  \A options \in SearchOptions, names \in NameOrders :
    LET results == Search(options, names)
    IN /\ Len(results) <= options.limit
       /\ \A k \in 1..Len(results) :
            /\ options.logName # "" => results[k].logName = options.logName
            /\ \E i \in 1..LiveCount(results[k].logName) :
                 AllEntries(results[k].logName)[i] = results[k].entry
            /\ Satisfies(results[k].entry, options)

----------------------------------------------------------------------------
(* The three backends side by side: one instance of each class receives    *)
(* the same calls with the same clock readings.  The callers store objects *)
(* under fresh ids and delete.                                             *)

Trio_new == [memory |-> Memory_new, nedb |-> NeDB_new, redis |-> Redis_new]

TrioPayloads == {Payload, Warning}

\* the counters of the three instances stay within the model
TrioWithin(trio) ==
  \A b \in Backends :
    LET agg == Adapter_getAggregateStatistics(b, trio[b])
    IN agg.totalLogs >= -MaxDrift /\ agg.totalEntries <= MaxEntries

StoreEverywhere(id, name, data, t) ==
  /\ \A n \in Names : Memory_getLogEntryById(adapter.memory, n, id) = <<>>
  /\ adapter' =
       [memory |-> Memory_storeLogEntry(adapter.memory, id, name, data, t).state,
        nedb |-> NeDB_storeLogEntry(adapter.nedb, id, name, data, t).state,
        redis |-> Redis_storeLogEntry(adapter.redis, id, name, data, t).state]
  /\ TrioWithin(adapter')
  /\ last' = Call("store", name, id, data, "ok")
  /\ now' = t
  /\ UNCHANGED <<backend, registry>>

DeleteEverywhere(name, id) ==
  /\ adapter' =
       [memory |-> Memory_deleteLogEntryById(adapter.memory, name, id).state,
        nedb |-> NeDB_deleteLogEntryById(adapter.nedb, name, id).state,
        redis |-> Redis_deleteLogEntryById(adapter.redis, name, id).state]
  /\ TrioWithin(adapter')
  /\ last' = Call("delete", name, id, JNum(0),
                  Memory_deleteLogEntryById(adapter.memory, name, id).result)
  /\ UNCHANGED <<backend, now, registry>>

InitTrio ==
  /\ backend = "trio"
  /\ now = 1
  /\ adapter = Trio_new
  /\ last = NoCall
  /\ registry = Registry_new

NextTrio ==
  \E name \in Names, id \in Ids :
    \/ \E data \in TrioPayloads, t \in ClockReads(DataTime) :
         StoreEverywhere(id, name, data, t)
    \/ DeleteEverywhere(name, id)

SpecTrio == InitTrio /\ [][NextTrio]_vars

\* the three instances hold the same entries in every log
SameStored ==
  \A n \in Names :
    /\ NeDB_getLogsByName(adapter.nedb, n, NoLimit)
         = Memory_getLogsByName(adapter.memory, n, NoLimit)
    /\ Redis_getLogsByName(adapter.redis, n, NoLimit)
         = Memory_getLogsByName(adapter.memory, n, NoLimit)

\* C17: holding the same entries, the three backends answer a search of
\* one log with the same entries in the same order.
C17_SearchIsBackendIndependent ==
  SameStored =>
    \A options \in OptionsOver(JsonFilterChoices, QueryChoices) :
      options.logName # "" =>
        /\ NeDB_searchLogs(adapter.nedb, options, <<>>)
             = Memory_searchLogs(adapter.memory, options, <<>>)
        /\ Redis_searchLogs(adapter.redis, options, <<>>)
             = Memory_searchLogs(adapter.memory, options, <<>>)

----------------------------------------------------------------------------
(* initialize() and close()                                                *)

\* C18: initialize() on an instance whose initialization has succeeded
\* changes nothing: the entries, the statistics and the initialized flag
\* are the ones before the call.
C18_InitializeAgainIsNoOp ==
  [][ adapter.initialized /\ last'.op = "initialize"
        => /\ adapter' = adapter
           /\ adapter'.initialized
           /\ \A n \in Names :
                /\ AllEntries(n)' = AllEntries(n)
                /\ LogStatistics(n)' = LogStatistics(n)
           /\ AggregateStatistics' = AggregateStatistics ]_vars

\* initialize() has been called again on an initialized instance that holds
\* entries and a log emptied by a delete
C18_Witness ==
  /\ last.op = "initialize"
  /\ adapter.initialized
  /\ AggregateStatistics.totalEntries >= 1
  /\ \E n \in Names : LiveCount(n) = 0 /\ n \in LogNames

\* C20: when a storeLogEntry, updateLogEntryById, deleteLogEntryById or
\* clearLog call on the NeDB adapter has returned, the stats collection
\* holds the totals and exactly the per-log records of the in-memory
\* statistics, so that close() and initialize() load the same statistics.
C20_PersistedStatisticsEqualCache ==
  backend = "nedb" /\ last.op \in {"store", "update", "delete", "clear"} =>
    /\ adapter.statsDb.global =
         <<[totalLogs |-> adapter.statistics.totalLogs,
            totalEntries |-> adapter.statistics.totalEntries]>>
    /\ adapter.statsDb.logStat = adapter.statistics.logStats
    /\ NeDB_getAggregateStatistics(NeDB_initialize(NeDB_close(adapter)))
         = NeDB_getAggregateStatistics(adapter)

----------------------------------------------------------------------------
(* Request handlers sharing the factory.  Each handler runs getAdapter for *)
(* a namespace of its request; between two calls the pending               *)
(* initializations may settle.  last[c] is what handler c was returned:    *)
(* <<namespace, instance>>.                                                *)

Namespaces == {"default", "tenant"}
Callers == 1..MaxCallers

GetAdapter(c, namespace) ==
  /\ LET r == Registry_getAdapter(registry, namespace, backend)
     IN /\ Len(r.state.instances) <= MaxInstances
        /\ registry' = r.state
        /\ last' = [last EXCEPT ![c] = <<namespace, r.result>>]
  /\ UNCHANGED <<backend, now, adapter>>

InitializationSettles(instance, status) ==
  /\ registry.instances[instance].status = "initializing"
  /\ registry' = Registry_settle(registry, instance, status)
  /\ UNCHANGED <<backend, now, adapter, last>>

InitRegistry ==
  /\ backend \in Backends
  /\ now = 1
  /\ adapter = Adapter_new(backend)
  /\ last = [c \in Callers |-> <<>>]
  /\ registry = Registry_new

NextRegistry ==
  \/ \E c \in Callers, namespace \in Namespaces : GetAdapter(c, namespace)
  \/ \E instance \in 1..Len(registry.instances),
        status \in {"initialized", "failed"} :
       InitializationSettles(instance, status)

SpecRegistry == InitRegistry /\ [][NextRegistry]_vars

\* C19: no namespace has two constructed instances, and what a handler was
\* returned for a namespace is the one instance of that namespace, the one
\* the cache holds.
C19_OneInstancePerNamespace ==
  /\ \A i, j \in 1..Len(registry.instances) :
       registry.instances[i].namespace = registry.instances[j].namespace => i = j
  /\ \A c \in Callers :
       last[c] # <<>> =>
         /\ last[c][1] \in DOMAIN registry.adapters
         /\ registry.adapters[last[c][1]] = last[c][2]
         /\ registry.instances[last[c][2]].namespace = last[c][1]
  /\ \A c, d \in Callers :
       last[c] # <<>> /\ last[d] # <<>> /\ last[c][1] = last[d][1]
         => last[c][2] = last[d][2]

\* two handlers hold the instance of one namespace while its initialize()
\* is pending, and the other namespace has its own instance
C19_Witness ==
  /\ Len(registry.instances) = 2
  /\ \E c, d \in Callers :
       /\ c # d
       /\ last[c] # <<>> /\ last[d] # <<>>
       /\ last[c] = last[d]
       /\ registry.instances[last[c][2]].status = "initializing"

----------------------------------------------------------------------------
(* Failures of the underlying store                                        *)

\* the latest call was made while the store was down
DuringOutage == "outage" \in DOMAIN last

\* C21: a write call (store, update, delete, clear) on an initialized NeDB
\* or Redis instance during which the store fails raises the error to the
\* caller; it does not return a value such as false.
C21_WriteErrorsPropagate ==
  DuringOutage /\ adapter.initialized /\ last.op \in WriteOps
    => last.result = "throws"

----------------------------------------------------------------------------
(* Calls of StorageAdapterFactory.createAdapter with every configuration   *)
(* and every state of the file system.                                     *)

FactoryOptions ==
  [type : {"none", "memory", "nedb", "redis"},
   dbPath : BOOLEAN,
   inMemoryOnly : BOOLEAN]

FileSystems ==
  [dbDir : BOOLEAN, namespaceDir : BOOLEAN,
   mkdirFails : BOOLEAN, constructorFails : BOOLEAN]

CreateAdapter(namespace, options, fs) ==
  /\ last' = [op |-> "createAdapter", namespace |-> namespace,
              options |-> options, fs |-> fs,
              result |-> createAdapter(namespace, options, fs)]
  /\ UNCHANGED <<backend, now, adapter, registry>>

NextFactory ==
  \E namespace \in {"default", "tenant"}, options \in FactoryOptions,
     fs \in FileSystems :
    CreateAdapter(namespace, options, fs)

SpecFactory == Init /\ [][NextFactory]_vars

\* the NeDB branch of the latest call met a failure
CreationFailed ==
  \/ (~last.fs.dbDir \/ ~last.fs.namespaceDir) /\ last.fs.mkdirFails
  \/ last.fs.constructorFails

\* C23 as stated: redis for kind 'redis'; memory for kind 'memory', for no
\* kind and for no path; nedb for kind 'nedb' with a path, and memory
\* instead when the directory or the backend cannot be created; the
\* adapter is of the namespace asked for and the call never raises.
C23_FactoryKinds ==
  last.op = "createAdapter" =>
    LET type == last.options.type
        class == last.result.class
    IN /\ class # "raised"
       /\ last.result.namespace = last.namespace
       /\ type = "redis" => class = "redis"
       /\ type \in {"memory", "none"} => class = "memory"
       /\ type = "nedb" /\ ~last.options.dbPath => class = "memory"
       /\ type = "nedb" /\ last.options.dbPath =>
            class = IF CreationFailed THEN "memory" ELSE "nedb"

\* C23, amended: as stated, except that kind 'nedb' with a path gives the
\* nedb backend (or the memory fallback) only when inMemoryOnly is not set;
\* with inMemoryOnly set it gives the memory backend.
C23_FactoryKindsUnlessInMemoryOnly ==
  last.op = "createAdapter" =>
    LET type == last.options.type
        class == last.result.class
    IN /\ class # "raised"
       /\ last.result.namespace = last.namespace
       /\ type = "redis" => class = "redis"
       /\ type \in {"memory", "none"} => class = "memory"
       /\ type = "nedb" /\ ~last.options.dbPath => class = "memory"
       /\ type = "nedb" /\ last.options.dbPath /\ last.options.inMemoryOnly =>
            class = "memory"
       /\ type = "nedb" /\ last.options.dbPath /\ ~last.options.inMemoryOnly =>
            class = IF CreationFailed THEN "memory" ELSE "nedb"

\* the factory fell back to memory: kind 'nedb' with a path, the namespace
\* directory missing and mkdirSync throwing
C23_Witness ==
  /\ last.op = "createAdapter"
  /\ last.options = [type |-> "nedb", dbPath |-> TRUE, inMemoryOnly |-> FALSE]
  /\ last.fs.dbDir /\ ~last.fs.namespaceDir /\ last.fs.mkdirFails
  /\ last.result = Created("memory", last.namespace)

(***************************************************************************)
(* The keys of the Redis server                                            *)
(* Adapters of every namespace talk to one Redis server.  A key is the     *)
(* text the template strings build, a sequence of characters; namespace,   *)
(* log name and id are texts the callers choose.  server maps the keys     *)
(* that exist to their values: a string (a serialized document or the      *)
(* decimal text of an integer), a set or a sorted set.                     *)
(***************************************************************************)

SERVER_NAMESPACE == <<"l", "o", "g", "s", "e", "r", "v", "e", "r">>

Redis_getKey(namespace, key) ==
  SERVER_NAMESPACE \o <<":">> \o namespace \o <<":">> \o key

Redis_getLogKey(namespace, logName, logId) ==
  Redis_getKey(namespace,
               <<"l", "o", "g", "s", ":">> \o logName \o <<":">> \o logId)

Redis_getLogNamesKey(namespace) ==
  Redis_getKey(namespace, <<"l", "o", "g", "n", "a", "m", "e", "s">>)

Redis_getLogEntriesKey(namespace, logName) ==
  Redis_getKey(namespace,
               <<"l", "o", "g", "s", ":">> \o logName
                 \o <<":", "e", "n", "t", "r", "i", "e", "s">>)

\* getKey('stats:totalEntries'), getKey('stats:totalLogs') and
\* getKey(`stats:log:${logName}:${field}`)
Redis_totalEntriesKey(namespace) ==
  Redis_getKey(namespace, <<"s", "t", "a", "t", "s", ":", "t", "o", "t", "a",
                            "l", "E", "n", "t", "r", "i", "e", "s">>)

Redis_totalLogsKey(namespace) ==
  Redis_getKey(namespace, <<"s", "t", "a", "t", "s", ":", "t", "o", "t", "a",
                            "l", "L", "o", "g", "s">>)

Redis_logStatKey(namespace, logName, field) ==
  Redis_getKey(namespace, <<"s", "t", "a", "t", "s", ":", "l", "o", "g", ":">>
                            \o logName \o <<":">> \o field)

EntryCountField == <<"e", "n", "t", "r", "y", "C", "o", "u", "n", "t">>
FirstField == <<"f", "i", "r", "s", "t">>
LastField == <<"l", "a", "s", "t">>

\* the values of the server
NoDocument == [id |-> <<>>, name |-> <<>>, timestamp |-> 0]
JsonString(document) ==
  [type |-> "string", int |-> FALSE, document |-> document, n |-> 0,
   members |-> {}]
IntString(n) ==
  [type |-> "string", int |-> TRUE, document |-> NoDocument, n |-> n,
   members |-> {}]
SetValue(members) ==
  [type |-> "set", int |-> FALSE, document |-> NoDocument, n |-> 0,
   members |-> members]
ZSetValue(members) ==
  [type |-> "zset", int |-> FALSE, document |-> NoDocument, n |-> 0,
   members |-> members]

Server_new == [k \in {} |-> IntString(0)]

\* a command of the given type is refused on a key that holds another type
WrongType(server, key, type) == Has(server, key) /\ server[key].type # type

\* INCR: a missing key counts from 0; a string that is not an integer is
\* refused and left as it is
Server_incr(server, key) ==
  IF ~Has(server, key) THEN Put(server, key, IntString(1))
  ELSE IF server[key].type = "string" /\ server[key].int
    THEN Put(server, key, IntString(server[key].n + 1))
    ELSE server

\* the commands updateStatisticsOnAdd sends; an error of the GETs is caught
\* and ends the update, a command refused inside the MULTI leaves the other
\* commands of the MULTI in force
Server_updateStatisticsOnAdd(server, namespace, logName, timestamp) ==
  LET logEntryCountKey == Redis_logStatKey(namespace, logName, EntryCountField)
      firstEntryTimestampKey == Redis_logStatKey(namespace, logName, FirstField)
      lastEntryTimestampKey == Redis_logStatKey(namespace, logName, LastField)
      isNew == ~Has(server, logEntryCountKey)
      m1 == Server_incr(server, Redis_totalEntriesKey(namespace))
      m2 == Server_incr(m1, logEntryCountKey)
      m3 == IF isNew THEN Server_incr(m2, Redis_totalLogsKey(namespace)) ELSE m2
      \* parseInt of a text that is no integer is NaN: no comparison holds
      before(key) == server[key].int /\ timestamp < server[key].n
      after(key) == server[key].int /\ timestamp > server[key].n
      m4 == IF ~Has(server, firstEntryTimestampKey) \/ before(firstEntryTimestampKey)
            THEN Put(m3, firstEntryTimestampKey, IntString(timestamp)) ELSE m3
      m5 == IF ~Has(server, lastEntryTimestampKey) \/ after(lastEntryTimestampKey)
            THEN Put(m4, lastEntryTimestampKey, IntString(timestamp)) ELSE m4
  IN IF \/ WrongType(server, logEntryCountKey, "string")
        \/ WrongType(server, firstEntryTimestampKey, "string")
        \/ WrongType(server, lastEntryTimestampKey, "string")
     THEN server
     ELSE m5

\* storeLogEntry of the adapter of the namespace: SET, SADD, ZADD, then the
\* statistics; a refused SADD or ZADD rejects the call with what the
\* earlier commands wrote in place
Server_storeLogEntry(server, namespace, logId, logName, t) ==
  LET document == [id |-> logId, name |-> logName, timestamp |-> t]
      logKey == Redis_getLogKey(namespace, logName, logId)
      logNamesKey == Redis_getLogNamesKey(namespace)
      logEntriesKey == Redis_getLogEntriesKey(namespace, logName)
      s1 == Put(server, logKey, JsonString(document))
      s2 == Put(s1, logNamesKey,
                SetValue((IF Has(s1, logNamesKey) THEN s1[logNamesKey].members
                          ELSE {}) \cup {logName}))
      others == IF Has(s2, logEntriesKey)
                THEN {m \in s2[logEntriesKey].members : m[1] # logId} ELSE {}
      s3 == Put(s2, logEntriesKey, ZSetValue(others \cup {<<logId, t>>}))
  IN IF WrongType(s1, logNamesKey, "set") THEN Outcome(s1, "throws")
     ELSE IF WrongType(s2, logEntriesKey, "zset") THEN Outcome(s2, "throws")
     ELSE Outcome(Server_updateStatisticsOnAdd(s3, namespace, logName, t), "ok")

\* getLogEntryById of the adapter of the namespace: GET and JSON.parse; a
\* missing key and a refused GET both give null
Server_getLogEntryById(server, namespace, logName, logId) ==
  LET logKey == Redis_getLogKey(namespace, logName, logId)
  IN IF ~Has(server, logKey) \/ WrongType(server, logKey, "string")
     THEN [found |-> FALSE, value |-> IntString(0)]
     ELSE [found |-> TRUE, value |-> server[logKey]]

\* the namespaces, log names and ids of the callers
KeyNamespaces == {<<"t">>, <<"t", ":", "l", "o", "g", "s", ":", "L">>}
KeyLogNames == {<<"M">>, <<"L", ":", "l", "o", "g", "s", ":", "M">>}
KeyIds == {<<"1">>, <<"e", "n", "t", "r", "i", "e", "s">>}

InitServer ==
  /\ backend = "redis"
  /\ now = 1
  /\ adapter = Server_new
  /\ last = NoCall
  /\ registry = Registry_new

\* a store through the adapter of one namespace; the clock moves on by one
\* millisecond a call
ServerStore(namespace, logName, logId) ==
  /\ now <= MaxStores
  /\ LET r == Server_storeLogEntry(adapter, namespace, logId, logName, now)
     IN /\ adapter' = r.state
        /\ last' = [op |-> "store", namespace |-> namespace, name |-> logName,
                    id |-> logId, result |-> r.result]
  /\ now' = now + 1
  /\ UNCHANGED <<backend, registry>>

ServerGet(namespace, logName, logId) ==
  /\ now <= MaxStores
  /\ last' = [op |-> "get", namespace |-> namespace, name |-> logName,
              id |-> logId,
              result |-> Server_getLogEntryById(adapter, namespace, logName, logId)]
  /\ UNCHANGED <<backend, now, adapter, registry>>

NextServer ==
  \E namespace \in KeyNamespaces, logName \in KeyLogNames, logId \in KeyIds :
    \/ ServerStore(namespace, logName, logId)
    \/ ServerGet(namespace, logName, logId)

SpecServer == InitServer /\ [][NextServer]_vars

\* C26: a store through the adapter of one namespace changes what
\* getLogEntryById returns through the adapter of no other namespace,
\* whatever the log names and ids: the keys of distinct namespaces never
\* coincide.
C26_NamespacesAreIsolated ==
  [][\A A \in KeyNamespaces, B \in KeyNamespaces :
       (A # B /\ last'.op = "store" /\ last'.namespace = A)
         => \A logName \in KeyLogNames, logId \in KeyIds :
              Server_getLogEntryById(adapter', B, logName, logId)
                = Server_getLogEntryById(adapter, B, logName, logId)]_vars

----------------------------------------------------------------------------
(* POST /logs/:logName, overwriteLog.  The handler awaits clearLog, then    *)
(* generates an id and awaits storeLogEntry; the handlers of other requests *)
(* run while it waits.  at gives the position of every request: "start"     *)
(* (not yet received), "cleared" (clearLog has resolved), "done" (the       *)
(* response is sent).  generateId gives every request an id of its own.     *)

Requests == 1..MaxRequests

InitOverwrite ==
  /\ backend \in Backends
  /\ now = 1
  /\ adapter = Adapter_new(backend)
  /\ last = [op |-> "overwriteLog", at |-> [r \in Requests |-> "start"]]
  /\ registry = Registry_new

\* up to `await namespaceStorage.clearLog(logName)`
OverwriteClear(r, logName) ==
  /\ last.at[r] = "start"
  /\ adapter' = Adapter_clearLog(backend, adapter, logName).state
  /\ last' = [last EXCEPT !.at[r] = "cleared"]
  /\ UNCHANGED <<backend, now, registry>>

\* from generateId() to the response
OverwriteStore(r, logName, t) ==
  /\ last.at[r] = "cleared"
  /\ adapter' = Adapter_storeLogEntry(backend, adapter, r, logName, Payload, t).state
  /\ last' = [last EXCEPT !.at[r] = "done"]
  /\ now' = t
  /\ UNCHANGED <<backend, registry>>

NextOverwrite ==
  \E r \in Requests :
    \/ OverwriteClear(r, "L")
    \/ \E t \in ClockReads(MaxTime) : OverwriteStore(r, "L", t)

SpecOverwrite == InitOverwrite /\ [][NextOverwrite]_vars

\* C27: once every overwrite request that was received has completed, the
\* log holds exactly one entry, whether the requests ran one after the
\* other or overlapped.
C27_OverwriteLeavesOneEntry ==
  (/\ \A r \in Requests : last.at[r] \in {"start", "done"}
   /\ \E r \in Requests : last.at[r] = "done")
    => LiveCount("L") = 1

----------------------------------------------------------------------------
(* A wall clock that is set back.  new Date() reads the system time, which  *)
(* an adjustment can move to an earlier value between two calls: a store    *)
(* is stamped with any reading of 1..SkewTime.                              *)

NextSkew ==
  \E name \in Names, id \in Ids, t \in 1..SkewTime :
    /\ EntryById(name, id) = <<>>
    /\ StoreLogEntry(id, name, Payload, t, MaxLen, MaxEntries)

SpecSkew == Init /\ [][NextSkew]_vars

\* C28: a storeLogEntry that succeeds, stamped t, on a log whose statistics
\* hold first f and last l leaves first = min(f, t) and last = max(l, t),
\* and first = last = t on a log without statistics; also when t is earlier
\* than l.
C28_StoreExtendsTimestampRange ==
  [][ \A n \in Names :
        last'.op = "store" /\ last'.result = "ok" /\ last'.name = n =>
          /\ LogStatistics(n)' # <<>>
          /\ LogStatistics(n) = <<>> =>
               /\ LogStatistics(n)'[1].firstEntryTimestamp = now'
               /\ LogStatistics(n)'[1].lastEntryTimestamp = now'
          /\ LogStatistics(n) # <<>> =>
               /\ LogStatistics(n)'[1].firstEntryTimestamp
                    = Minimum({LogStatistics(n)[1].firstEntryTimestamp, now'})
               /\ LogStatistics(n)'[1].lastEntryTimestamp
                    = Maximum({LogStatistics(n)[1].lastEntryTimestamp, now'}) ]_vars

----------------------------------------------------------------------------
(* totalLogs of the Memory adapter                                          *)

\* C29: in the Memory adapter, with pairwise distinct ids, after every
\* store, delete and clear totalLogs is the number of log names that hold
\* at least one entry; also when a log that was emptied entry by entry is
\* stored into again.
C29_MemoryTotalLogsIsLiveLogs ==
  backend = "memory" /\ last.op \in {"store", "delete", "clear"}
    => AggregateStatistics.totalLogs = Cardinality(LiveNames)

----------------------------------------------------------------------------
(* updateLogEntryById: what it leaves alone                                 *)

\* the ids under which the callers of the large log store
LargeIds == 1..(LargeN + 1)

\* C30: a successful updateLogEntryById changes only the data and the
\* timestamp of the entry it targets: the entry keeps its id and name, every
\* other entry, the log names, totalLogs, totalEntries and every log's
\* entryCount stay as they were, for a log of any size.
C30_UpdateChangesOnlyItsEntry ==
  [][ \A n \in Names, i \in LargeIds :
        (/\ last'.op = "update" /\ last'.result = "true"
         /\ last'.name = n /\ last'.id = i) =>
          /\ EntryById(n, i)' # <<>>
          /\ EntryById(n, i)'[1].id = EntryById(n, i)[1].id
          /\ EntryById(n, i)'[1].name = EntryById(n, i)[1].name
          /\ \A m \in Names, j \in LargeIds :
               <<m, j>> # <<n, i>> => EntryById(m, j)' = EntryById(m, j)
          /\ LogNames' = LogNames
          /\ AggregateStatistics'.totalLogs = AggregateStatistics.totalLogs
          /\ AggregateStatistics'.totalEntries = AggregateStatistics.totalEntries
          /\ \A m \in Names :
               /\ (LogStatistics(m)' = <<>>) <=> (LogStatistics(m) = <<>>)
               /\ LogStatistics(m) # <<>> =>
                    LogStatistics(m)'[1].entryCount = LogStatistics(m)[1].entryCount
    ]_vars

----------------------------------------------------------------------------
(* Lazy initialization that meets a failure.  A call on an instance that   *)
(* is not initialized runs initialize() through ensureInitialized; failAt  *)
(* names the command of initialize() that rejects, the commands before it  *)
(* having succeeded.  NeDB: loadDatabase and createIndex are awaited in    *)
(* the try block of initialize(), which rethrows; findOne and find are     *)
(* awaited inside loadStatistics, whose catch block only logs.  Redis:     *)
(* the one command is ping.                                                *)

NeDB_initialize_whenFails(s, failAt) ==
  LET reset == [s EXCEPT !.statistics = [totalLogs |-> 0, totalEntries |-> 0,
                                         logStats |-> EmptyMap]]
      loaded == NeDB_loadStatistics(reset)
  IN CASE failAt \in {"loadDatabase", "createIndex"} -> Outcome(s, "throws")
       [] failAt = "findOne" ->
            Outcome([reset EXCEPT !.initialized = TRUE], "ok")
       [] failAt = "find" ->
            Outcome([loaded EXCEPT !.statistics.logStats = EmptyMap,
                                   !.initialized = TRUE], "ok")

Redis_initialize_whenFails(s, failAt) == Outcome(s, "throws")

FailurePoints(b) ==
  IF b = "nedb" THEN {"loadDatabase", "createIndex", "findOne", "find"}
  ELSE {"ping"}

\* getAggregateStatistics() on an instance that is not initialized, the
\* initialization meeting a failure
InitializationFails(failAt) ==
  /\ backend \in {"nedb", "redis"}
  /\ ~adapter.initialized
  /\ failAt \in FailurePoints(backend)
  /\ LET r == IF backend = "nedb" THEN NeDB_initialize_whenFails(adapter, failAt)
              ELSE Redis_initialize_whenFails(adapter, failAt)
     IN /\ adapter' = r.state
        /\ last' = Call("getAggregateStatistics", "", 0, JNum(0), r.result)
                     @@ [failAt |-> failAt]
  /\ UNCHANGED <<backend, now, registry>>

\* the counters are followed while they lie within -MaxDrift..MaxEntries
CountersInRange ==
  LET agg == AggregateStatistics
      range == (0 - MaxDrift)..MaxEntries
  IN /\ agg.totalLogs \in range
     /\ agg.totalEntries \in range
     /\ \A n \in DOMAIN agg.logStats : agg.logStats[n].entryCount \in range

NextInitFailure ==
  /\ CountersInRange
  /\ \/ NextLifecycle
     \/ \E failAt \in {"loadDatabase", "createIndex", "findOne", "find", "ping"} :
          InitializationFails(failAt)

SpecInitFailure == Init /\ [][NextInitFailure]_vars

\* C31: in NeDB and Redis a call on an instance that is not initialized
\* attempts the initialization; when the attempt fails the call raises and
\* the instance stays uninitialized, and a later call that meets no failure
\* leaves the instance initialized.
C31_InitializationFailureIsNotPermanent ==
  /\ "failAt" \in DOMAIN last =>
       last.result = "throws" /\ ~adapter.initialized
  /\ (/\ backend \in {"nedb", "redis"}
      /\ last.op \in {"store", "update", "delete", "clear"}) =>
       adapter.initialized

----------------------------------------------------------------------------
(* Concurrent calls on one instance.  An async handler runs until an await *)
(* and resumes in a later turn of the job queue; the turns of the calls in *)
(* flight interleave in any order.  tasks gives every slot the call it     *)
(* holds: its kind, arguments, the await it is suspended at, and what its  *)
(* local variables hold (t: the timestamp of its entry; seen: what it has  *)
(* read).                                                                  *)

TaskIds == 1..MaxTasks

Idle == [kind |-> "idle", name |-> "", id |-> 0, at |-> "", t |-> 0, seen |-> <<>>]

Task(kind, name, id, at, t, seen) ==
  [kind |-> kind, name |-> name, id |-> id, at |-> at, t |-> t, seen |-> seen]

InFlight == {k \in DOMAIN last.tasks : last.tasks[k] # Idle}

\* no call in flight works on the id
FreeId(id) == \A k \in InFlight : last.tasks[k].id # id

InitTasks ==
  /\ backend \in Backends
  /\ now = 1
  /\ adapter = Adapter_initialize(backend, Adapter_new(backend))
  /\ last = [op |-> "tasks", tasks |-> [k \in TaskIds |-> Idle]]
  /\ registry = Registry_new

\* the call enters its handler and is suspended at its first await
StartTask(k, kind, name, id) ==
  /\ last.tasks[k] = Idle
  /\ kind \in {"store", "delete"} => FreeId(id)
  /\ last' = [last EXCEPT !.tasks[k] =
                Task(kind, name, IF kind = "clear" THEN 0 ELSE id, "entered", 0, <<>>)]
  /\ UNCHANGED <<backend, now, adapter, registry>>

\* MemoryStorageAdapter.storeLogEntry: from `await this.initialize()` to the
\* await inside updateStatisticsOnAdd, then the statistics
Memory_storeStep(k, t) ==
  LET task == last.tasks[k]
      entry == LogEntry(task.id, task.name, Payload, t)
      isNew == task.name \notin DOMAIN adapter.logs
      s1 == IF isNew
            THEN [adapter EXCEPT !.logs = Put(@, task.name, <<>>),
                                 !.statistics.totalLogs = @ + 1]
            ELSE adapter
  IN /\ task.kind = "store"
     /\ \/ /\ task.at = "entered"
           /\ FindIndex(IF isNew THEN <<>> ELSE adapter.logs[task.name], task.id) = 0
           /\ ~isNew => Len(adapter.logs[task.name]) < MaxLen
           /\ adapter' = [s1 EXCEPT !.logs[task.name] = Append(@, entry)]
           /\ last' = [last EXCEPT !.tasks[k].at = "pushed", !.tasks[k].t = t]
           /\ now' = t
        \/ /\ task.at = "pushed"
           /\ adapter' = Memory_updateStatisticsOnAdd(
                           adapter, task.name,
                           LogEntry(task.id, task.name, Payload, task.t))
           /\ last' = [last EXCEPT !.tasks[k] = Idle]
           /\ now' = now
     /\ UNCHANGED <<backend, registry>>

\* MemoryStorageAdapter.deleteLogEntryById: splice, then the statistics
Memory_deleteStep(k) ==
  LET task == last.tasks[k]
      logEntries == IF task.name \in DOMAIN adapter.logs
                    THEN adapter.logs[task.name] ELSE <<>>
      index == FindIndex(logEntries, task.id)
  IN /\ task.kind = "delete"
     /\ \/ /\ task.at = "entered" /\ index = 0
           /\ adapter' = adapter
           /\ last' = [last EXCEPT !.tasks[k] = Idle]
        \/ /\ task.at = "entered" /\ index # 0
           /\ adapter' = [adapter EXCEPT !.logs[task.name] = Splice(@, index)]
           /\ last' = [last EXCEPT !.tasks[k].at = "spliced",
                                   !.tasks[k].t = getTime(logEntries[index].timestamp)]
        \/ /\ task.at = "spliced"
           /\ adapter' = Memory_updateStatisticsOnDelete(
                           adapter, task.name,
                           LogEntry(task.id, task.name, Payload, task.t))
           /\ last' = [last EXCEPT !.tasks[k] = Idle]
     /\ UNCHANGED <<backend, now, registry>>

\* MemoryStorageAdapter.clearLog: the test of logs.has, the statistics
\* behind the await inside updateStatisticsOnClear, then logs.delete
Memory_clearStep(k) ==
  LET task == last.tasks[k]
  IN /\ task.kind = "clear"
     /\ \/ /\ task.at = "entered" /\ task.name \notin DOMAIN adapter.logs
           /\ adapter' = adapter
           /\ last' = [last EXCEPT !.tasks[k] = Idle]
        \/ /\ task.at = "entered" /\ task.name \in DOMAIN adapter.logs
           /\ adapter' = adapter
           /\ last' = [last EXCEPT !.tasks[k].at = "found"]
        \/ /\ task.at = "found"
           /\ adapter' = Memory_updateStatisticsOnClear(adapter, task.name)
           /\ last' = [last EXCEPT !.tasks[k].at = "counted"]
        \/ /\ task.at = "counted"
           /\ adapter' = [adapter EXCEPT
                            !.logs = [n \in DOMAIN @ \ {task.name} |-> @[n]]]
           /\ last' = [last EXCEPT !.tasks[k] = Idle]
     /\ UNCHANGED <<backend, now, registry>>

NextMemoryTasks ==
  /\ backend = "memory"
  /\ CountersInRange
  /\ \E k \in TaskIds :
       \/ \E kind \in {"store", "delete", "clear"}, name \in Names, id \in Ids :
            StartTask(k, kind, name, id)
       \/ \E t \in ClockReads(MaxTime) : Memory_storeStep(k, t)
       \/ Memory_deleteStep(k)
       \/ Memory_clearStep(k)

SpecMemoryTasks == InitTasks /\ [][NextMemoryTasks]_vars

\* the statistics record counted again from the entries of the log
Recounted(name) ==
  IF LiveCount(name) = 0 THEN <<>>
  ELSE LET entries == AllEntries(name)
       IN <<ScanTimestamps(entries, 1, Len(entries),
                           [NoStats EXCEPT !.entryCount = Len(entries)])>>

----------------------------------------------------------------------------
(* Concurrent calls on the Redis adapter.  Every await of a handler is one *)
(* command (or one MULTI/pipeline) sent to the server; the server runs the *)
(* commands of the calls in flight in any order.  seen holds the replies   *)
(* the call keeps in local variables: <<count, first, last>> for           *)
(* updateStatisticsOnAdd, each <<>> for a null reply, and <<logIds>> then  *)
(* <<logIds, count>> for clearLog.                                         *)

Reply(m, k) == IF Has(m, k) THEN <<m[k]>> ELSE <<>>

\* the MULTI of updateStatisticsOnAdd with the two counters written from
\* the count read before it instead of incremented
Redis_execOnAdd_writesCounts(stats, logName, timestamp, seen) ==
  LET count == IF seen[1] = <<>> THEN 0 ELSE seen[1][1]
      m1 == Set(stats, TotalEntriesKey, count + 1)
      m2 == Set(m1, EntryCountKey(logName), count + 1)
      m3 == IF seen[1] = <<>> THEN IncrBy(m2, TotalLogsKey, 1) ELSE m2
      m4 == IF seen[2] = <<>> \/ timestamp < seen[2][1]
            THEN Set(m3, FirstKey(logName), timestamp) ELSE m3
  IN IF seen[3] = <<>> \/ timestamp > seen[3][1]
     THEN Set(m4, LastKey(logName), timestamp) ELSE m4

\* the MULTI of updateStatisticsOnAdd without the two timestamp writes
Redis_execOnAdd_countsOnly(stats, logName, timestamp, seen) ==
  LET m1 == IncrBy(stats, TotalEntriesKey, 1)
      m2 == IncrBy(m1, EntryCountKey(logName), 1)
  IN IF seen[1] = <<>> THEN IncrBy(m2, TotalLogsKey, 1) ELSE m2

\* multi.exec() of updateStatisticsOnAdd: the commands queued from the
\* replies read before it
Redis_execOnAdd(stats, logName, timestamp, seen) ==
  LET m1 == IncrBy(stats, TotalEntriesKey, 1)
      m2 == IncrBy(m1, EntryCountKey(logName), 1)
      m3 == IF seen[1] = <<>> THEN IncrBy(m2, TotalLogsKey, 1) ELSE m2
      m4 == IF seen[2] = <<>> \/ timestamp < seen[2][1]
            THEN Set(m3, FirstKey(logName), timestamp) ELSE m3
  IN IF seen[3] = <<>> \/ timestamp > seen[3][1]
     THEN Set(m4, LastKey(logName), timestamp) ELSE m4

\* RedisStorageAdapter.storeLogEntry, command by command: SET, SADD, ZADD,
\* GET entryCount, the two GETs of the timestamps, EXEC
Redis_storeStep(k, t) ==
  LET task == last.tasks[k]
      document == LogEntry(task.id, task.name, Payload, task.t)
  IN /\ task.kind = "store"
     /\ \/ /\ task.at = "entered"
           /\ <<task.name, task.id>> \notin DOMAIN adapter.docs
           /\ adapter' = [adapter EXCEPT !.docs =
                Set(@, <<task.name, task.id>>,
                    Redis_stringifyDoc(LogEntry(task.id, task.name, Payload, t)))]
           /\ last' = [last EXCEPT !.tasks[k].at = "set", !.tasks[k].t = t]
           /\ now' = t
        \/ /\ task.at = "set"
           /\ adapter' = [adapter EXCEPT !.lognames = @ \cup {task.name}]
           /\ last' = [last EXCEPT !.tasks[k].at = "sadd"]
           /\ now' = now
        \/ /\ task.at = "sadd"
           /\ adapter' = [adapter EXCEPT !.entries =
                Redis_zadd(@, task.name, getTime(document.timestamp), task.id)]
           /\ last' = [last EXCEPT !.tasks[k].at = "zadd"]
           /\ now' = now
        \/ /\ task.at = "zadd"
           /\ adapter' = adapter
           /\ last' = [last EXCEPT
                         !.tasks[k].at = "count",
                         !.tasks[k].seen = <<Reply(adapter.stats, EntryCountKey(task.name))>>]
           /\ now' = now
        \/ /\ task.at = "count"
           /\ adapter' = adapter
           /\ last' = [last EXCEPT
                         !.tasks[k].at = "extremes",
                         !.tasks[k].seen =
                            <<task.seen[1],
                              Reply(adapter.stats, FirstKey(task.name)),
                              Reply(adapter.stats, LastKey(task.name))>>]
           /\ now' = now
        \/ /\ task.at = "extremes"
           /\ adapter' = [adapter EXCEPT !.stats =
                Redis_execOnAdd(@, task.name, getTime(document.timestamp), task.seen)]
           /\ last' = [last EXCEPT !.tasks[k] = Idle]
           /\ now' = now
     /\ UNCHANGED <<backend, registry>>

\* RedisStorageAdapter.clearLog, command by command: ZRANGE, the pipeline
\* (DEL of the documents read, DEL of the index, SREM), then
\* updateStatisticsOnClear: GET entryCount, DECRBY, DECR, the three DELs
Redis_clearStep(k) ==
  LET task == last.tasks[k]
      logIds == Redis_zrevrange(adapter, task.name, 0)
      entryCount == IF task.seen[2] = <<>> THEN 0 ELSE task.seen[2][1]
  IN /\ task.kind = "clear"
     /\ \/ /\ task.at = "entered" /\ Len(logIds) = 0
           /\ adapter' = adapter
           /\ last' = [last EXCEPT !.tasks[k] = Idle]
        \/ /\ task.at = "entered" /\ Len(logIds) > 0
           /\ adapter' = adapter
           /\ last' = [last EXCEPT !.tasks[k].at = "zrange",
                                   !.tasks[k].seen = <<logIds>>]
        \/ /\ task.at = "zrange"
           /\ adapter' = [adapter EXCEPT
                !.docs = Del(@, {<<task.name, task.seen[1][i]>> :
                                   i \in 1..Len(task.seen[1])}),
                !.entries = Del(@, {task.name}),
                !.lognames = @ \ {task.name}]
           /\ last' = [last EXCEPT !.tasks[k].at = "pipeline"]
        \/ /\ task.at = "pipeline"
           /\ adapter' = adapter
           /\ IF Has(adapter.stats, EntryCountKey(task.name))
                 /\ adapter.stats[EntryCountKey(task.name)] > 0
              THEN last' = [last EXCEPT
                              !.tasks[k].at = "count",
                              !.tasks[k].seen =
                                 <<task.seen[1],
                                   Reply(adapter.stats, EntryCountKey(task.name))>>]
              ELSE last' = [last EXCEPT !.tasks[k] = Idle]
        \/ /\ task.at = "count"
           /\ adapter' = [adapter EXCEPT !.stats = IncrBy(@, TotalEntriesKey, -entryCount)]
           /\ last' = [last EXCEPT !.tasks[k].at = "decrby"]
        \/ /\ task.at = "decrby"
           /\ adapter' = [adapter EXCEPT !.stats = IncrBy(@, TotalLogsKey, -1)]
           /\ last' = [last EXCEPT !.tasks[k].at = "decr"]
        \/ /\ task.at = "decr"
           /\ adapter' = [adapter EXCEPT !.stats =
                Del(@, {EntryCountKey(task.name), FirstKey(task.name),
                        LastKey(task.name)})]
           /\ last' = [last EXCEPT !.tasks[k] = Idle]
     /\ UNCHANGED <<backend, now, registry>>

\* the counter keys are followed while they lie within -MaxDrift..MaxEntries
RedisCountersInRange ==
  \A key \in {TotalLogsKey, TotalEntriesKey} \cup {EntryCountKey(n) : n \in Names} :
    Has(adapter.stats, key) => adapter.stats[key] \in (0 - MaxDrift)..MaxEntries

\* concurrent stores on log "L"
NextRedisStores ==
  /\ backend = "redis"
  /\ RedisCountersInRange
  /\ \E k \in TaskIds :
       \/ \E id \in Ids : StartTask(k, "store", "L", id)
       \/ \E t \in ClockReads(DataTime) : Redis_storeStep(k, t)

SpecRedisStores == InitTasks /\ [][NextRedisStores]_vars

\* concurrent stores and clears on log "L"
NextRedisTasks ==
  /\ backend = "redis"
  /\ RedisCountersInRange
  /\ \E k \in TaskIds :
       \/ \E kind \in {"store", "clear"}, id \in Ids :
            StartTask(k, kind, "L", id)
       \/ \E t \in ClockReads(MaxTime) : Redis_storeStep(k, t)
       \/ Redis_clearStep(k)

SpecRedisTasks == InitTasks /\ [][NextRedisTasks]_vars

\* every call on the Redis instance has returned
RedisQuiet == backend = "redis" /\ last.op = "tasks" /\ InFlight = {}

\* C33: with concurrent storeLogEntry calls on one log, the read of the
\* extremes is not atomic with the conditional write: an interleaving
\* (C33_Witness) leaves firstEntryTimestamp or lastEntryTimestamp different
\* from the minimum or maximum timestamp of the stored entries.  What every
\* interleaving keeps is that both are timestamps of stored entries of the
\* log.
C33_ExtremesAreEntryTimestamps ==
  RedisQuiet =>
    \A n \in Names :
      LiveCount(n) >= 1 =>
        /\ LogStatistics(n) # <<>>
        /\ LogStatistics(n)[1].firstEntryTimestamp \in Timestamps(n)
        /\ LogStatistics(n)[1].lastEntryTimestamp \in Timestamps(n)

\* both stores have returned and an extreme of the record is not the
\* extreme of the entries
C33_Witness ==
  /\ RedisQuiet
  /\ \E n \in Names :
       /\ LiveCount(n) = 2
       /\ LogStatistics(n) # <<>>
       /\ \/ LogStatistics(n)[1].firstEntryTimestamp # Minimum(Timestamps(n))
          \/ LogStatistics(n)[1].lastEntryTimestamp # Maximum(Timestamps(n))

\* C34: when several storeLogEntry calls for one log that had no entries
\* run concurrently, totalLogs has risen by exactly one for the log once
\* all of them have returned: totalLogs is the number of logs with entries.
C34_TotalLogsCountsLogOnce ==
  RedisQuiet => AggregateStatistics.totalLogs = Cardinality(LiveNames)

\* C35: with concurrent storeLogEntry calls under pairwise distinct ids,
\* once all have returned totalEntries and every log's entryCount are the
\* numbers of stored entries: no increment is lost or duplicated.
C35_CountersCountEveryStore ==
  RedisQuiet =>
    /\ AggregateStatistics.totalEntries
         = SumOver([n \in Names |-> LiveCount(n)], Names)
    /\ \A n \in Names :
         LiveCount(n) >= 1 =>
           /\ LogStatistics(n) # <<>>
           /\ LogStatistics(n)[1].entryCount = LiveCount(n)

\* two stores on log "L" overlapped (both read the entry count before
\* either was counted, so totalLogs is 2) and have returned
C35_Witness ==
  /\ RedisQuiet
  /\ LiveCount("L") = 2 /\ LiveCount("M") = 0
  /\ AggregateStatistics.totalLogs = 2
  /\ AggregateStatistics.totalEntries = 2

\* C36: for every interleaving of a storeLogEntry and a clearLog on one
\* log, once both have returned every document getLogEntryById still
\* returns belongs to a log named by getLogNames() and has its id in the
\* time index that getLogsByName reads.
C36_NoOrphanAfterStoreAndClear ==
  RedisQuiet =>
    \A id \in Ids :
      EntryById("L", id) # <<>> =>
        /\ "L" \in LogNames
        /\ \E i \in 1..LiveCount("L") : AllEntries("L")[i].id = id


\* ---------------------------------------------------------------------
\* NeDBStorageAdapter with calls in flight.  Slot 0 is the initialize()
\* that NamespacedStorageAdapterFactory.getAdapter starts without
\* awaiting it; slots 1..MaxTasks are operations, each of which begins
\* with `await this.ensureInitialized()`.

\* ids of the entries the operations in flight work on
TaskEntryIds == 1..(MaxId + 1)

\* getAdapter has constructed the instance and called initialize()
InitNeDBInit ==
  /\ backend = "nedb"
  /\ now = 1
  /\ adapter = NeDB_new
  /\ last = [op |-> "tasks",
             tasks |-> [k \in {0} \cup TaskIds |->
                          IF k = 0 THEN Task("init", "", 0, "entered", 0, <<>>)
                          ELSE Idle],
             bodies |-> 0, updated |-> FALSE, reset |-> FALSE]
  /\ registry = Registry_new

\* the instance after its initialization has finished
InitNeDBTasks ==
  /\ backend = "nedb"
  /\ now = 1
  /\ adapter = NeDB_initialize(NeDB_new)
  /\ last = [op |-> "tasks", tasks |-> [k \in TaskIds |-> Idle],
             bodies |-> 1, updated |-> FALSE, reset |-> FALSE]
  /\ registry = Registry_new

\* what a call does once its initialization is over
AfterInitialize(k) ==
  IF last.tasks[k].kind = "init" THEN Idle
  ELSE [last.tasks[k] EXCEPT !.at = "ready"]

\* NeDBStorageAdapter.ensureInitialized and initialize: the check of
\* `initialized`, the awaits on loadDatabase and createIndex, the new
\* statistics object, loadStatistics' findOne and find, `initialized = true`
NeDB_initStep(k) ==
  LET task == last.tasks[k]
      found == Len(adapter.statsDb.global) > 0
  IN /\ task.kind \in {"init", "store", "delete"}
     /\ \/ /\ task.at = "entered" /\ adapter.initialized
           /\ adapter' = adapter
           /\ last' = [last EXCEPT !.tasks[k] = AfterInitialize(k)]
        \/ /\ task.at = "entered" /\ ~adapter.initialized
           /\ adapter' = adapter
           /\ last' = [last EXCEPT !.tasks[k].at = "loading", !.bodies = @ + 1]
        \/ /\ task.at = "loading"
           /\ adapter' = [adapter EXCEPT
                            !.statistics = [totalLogs |-> 0, totalEntries |-> 0,
                                            logStats |-> EmptyMap]]
           /\ last' = [last EXCEPT !.tasks[k].at = "findOne",
                                   !.reset = @ \/ last.updated]
        \/ /\ task.at = "findOne"
           /\ adapter' = IF found
                         THEN [adapter EXCEPT
                                 !.statistics.totalLogs =
                                    adapter.statsDb.global[1].totalLogs,
                                 !.statistics.totalEntries =
                                    adapter.statsDb.global[1].totalEntries]
                         ELSE [adapter EXCEPT
                                 !.statsDb.global =
                                    <<[totalLogs |-> 0, totalEntries |-> 0]>>]
           /\ last' = [last EXCEPT !.tasks[k].at = "find"]
        \/ /\ task.at = "find"
           /\ adapter' = [adapter EXCEPT
                            !.statistics.logStats = adapter.statsDb.logStat @@ @,
                            !.initialized = TRUE]
           /\ last' = [last EXCEPT !.tasks[k] = AfterInitialize(k)]
     /\ UNCHANGED <<backend, now, registry>>

\* NeDBStorageAdapter.storeLogEntry after ensureInitialized: the insert,
\* the counters of updateStatisticsOnAdd, saveStatistics
NeDB_storeStep(k, t) ==
  LET task == last.tasks[k]
      document == LogEntry(task.id, task.name, Payload, task.t)
  IN /\ task.kind = "store"
     /\ \/ /\ task.at = "ready"
           /\ \E d \in adapter.logsDb : d.id = task.id
           /\ adapter' = adapter
           /\ last' = [last EXCEPT !.tasks[k] = Idle]
           /\ now' = now
        \/ /\ task.at = "ready"
           /\ ~ \E d \in adapter.logsDb : d.id = task.id
           /\ adapter' = [adapter EXCEPT
                            !.logsDb = @ \cup {LogEntry(task.id, task.name, Payload, t)}]
           /\ last' = [last EXCEPT !.tasks[k].at = "inserted", !.tasks[k].t = t]
           /\ now' = t
        \/ /\ task.at = "inserted"
           /\ adapter' = [NeDB_updateStatisticsOnAdd(adapter, task.name, document)
                          EXCEPT !.statsDb = adapter.statsDb]
           /\ last' = [last EXCEPT !.tasks[k].at = "counted", !.updated = TRUE]
           /\ now' = now
        \/ /\ task.at = "counted"
           /\ adapter' = NeDB_saveStatistics(adapter)
           /\ last' = [last EXCEPT !.tasks[k] = Idle]
           /\ now' = now
     /\ UNCHANGED <<backend, registry>>

\* NeDBStorageAdapter.deleteLogEntryById after ensureInitialized: findOne,
\* remove, the counters of updateStatisticsOnDelete, the find of
\* recalculateLogStatistics, its assignments, saveStatistics
NeDB_deleteStep(k) ==
  LET task == last.tasks[k]
      existing == {d \in adapter.logsDb : d.name = task.name /\ d.id = task.id}
      hasStats == task.name \in DOMAIN adapter.statistics.logStats
      logStats == adapter.statistics.logStats[task.name]
      counted == [adapter EXCEPT
                    !.statistics.logStats[task.name].entryCount = @ - 1,
                    !.statistics.totalEntries = @ - 1]
      entries == NeDB_getLogsByName(adapter, task.name, DefaultLimit)
      scanned == ScanTimestamps(entries, 1, Len(entries),
                    [NoStats EXCEPT !.entryCount = Len(entries)])
  IN /\ task.kind = "delete"
     /\ \/ /\ task.at = "ready" /\ existing = {}
           /\ adapter' = adapter
           /\ last' = [last EXCEPT !.tasks[k] = Idle]
        \/ /\ task.at = "ready" /\ existing # {}
           /\ adapter' = adapter
           /\ last' = [last EXCEPT
                         !.tasks[k].at = "found",
                         !.tasks[k].t =
                            getTime((CHOOSE d \in existing : TRUE).timestamp)]
        \/ /\ task.at = "found"
           /\ adapter' = [adapter EXCEPT !.logsDb = @ \ existing]
           /\ last' = [last EXCEPT
                         !.tasks[k] = IF existing = {} THEN Idle
                                      ELSE [@ EXCEPT !.at = "removed"]]
        \/ /\ task.at = "removed" /\ ~hasStats
           /\ adapter' = adapter
           /\ last' = [last EXCEPT !.tasks[k] = Idle]
        \/ /\ task.at = "removed" /\ hasStats /\ logStats.entryCount - 1 <= 0
           /\ adapter' = [counted EXCEPT
                            !.statistics.logStats =
                               [n \in DOMAIN @ \ {task.name} |-> @[n]],
                            !.statistics.totalLogs = @ - 1]
           /\ last' = [last EXCEPT !.tasks[k] = Idle, !.updated = TRUE]
        \/ /\ task.at = "removed" /\ hasStats /\ logStats.entryCount - 1 > 0
           /\ adapter' = counted
           /\ last' = [last EXCEPT
                         !.tasks[k].at =
                            IF ~Falsy(task.t)
                               /\ (task.t = logStats.firstEntryTimestamp
                                   \/ task.t = logStats.lastEntryTimestamp)
                            THEN "recalculate" ELSE "counted",
                         !.updated = TRUE]
        \/ /\ task.at = "recalculate"
           /\ adapter' = adapter
           /\ last' = [last EXCEPT
                         !.tasks[k].at = "read",
                         !.tasks[k].seen =
                            <<<<scanned.entryCount, scanned.firstEntryTimestamp,
                                scanned.lastEntryTimestamp>>>>]
        \/ /\ task.at = "read"
           /\ adapter' = [adapter EXCEPT
                            !.statistics.logStats =
                               Put(@, task.name,
                                   [entryCount |-> task.seen[1][1],
                                    firstEntryTimestamp |-> task.seen[1][2],
                                    lastEntryTimestamp |-> task.seen[1][3]])]
           /\ last' = [last EXCEPT !.tasks[k].at = "recounted"]
        \/ /\ task.at = "recounted"
           /\ adapter' = NeDB_saveStatistics(adapter)
           /\ last' = [last EXCEPT !.tasks[k].at = "counted"]
        \/ /\ task.at = "counted"
           /\ adapter' = NeDB_saveStatistics(adapter)
           /\ last' = [last EXCEPT !.tasks[k] = Idle]
     /\ UNCHANGED <<backend, now, registry>>

\* the counters of the NeDB adapter stay in the range the ids allow
NeDBCountersInRange ==
  LET range == (0 - MaxDrift)..(MaxEntries + 1)
  IN /\ adapter.statistics.totalLogs \in range
     /\ adapter.statistics.totalEntries \in range
     /\ \A n \in DOMAIN adapter.statistics.logStats :
          adapter.statistics.logStats[n].entryCount \in range

NextNeDBInit ==
  /\ backend = "nedb"
  /\ NeDBCountersInRange
  /\ \E k \in DOMAIN last.tasks :
       \/ /\ k # 0
          /\ \E id \in Ids : StartTask(k, "store", "L", id)
       \/ NeDB_initStep(k)
       \/ \E t \in ClockReads(MaxTime) : NeDB_storeStep(k, t)

SpecNeDBInit == InitNeDBInit /\ [][NextNeDBInit]_vars

NextNeDBTasks ==
  /\ backend = "nedb"
  /\ NeDBCountersInRange
  /\ \E k \in DOMAIN last.tasks :
       \/ \E kind \in {"store", "delete"}, id \in TaskEntryIds :
            StartTask(k, kind, "L", id)
       \/ NeDB_initStep(k)
       \/ \E t \in ClockReads(MaxTime) : NeDB_storeStep(k, t)
       \/ NeDB_deleteStep(k)

SpecNeDBTasks == InitNeDBTasks /\ [][NextNeDBTasks]_vars

NeDBQuiet == backend = "nedb" /\ last.op = "tasks" /\ InFlight = {}

\* C37: on a NeDB instance whose initialization is triggered by the
\* registry's un-awaited initialize() and by the lazy initialization of the
\* first operations, the initialization body runs at most once, and the
\* in-memory statistics are never reset after an operation updated them.
C37_InitializationBodyRunsOnce ==
  backend = "nedb" /\ last.op = "tasks" /\ 0 \in DOMAIN last.tasks
    => last.bodies <= 1 /\ ~last.reset

C39_DuplicateIdChangesNothing ==
  [][ /\ backend = "nedb"
      /\ last'.op = "store"
      /\ \E d \in adapter.logsDb : d.id = last'.id
      => /\ last'.result = "error"
         /\ adapter'.logsDb = adapter.logsDb
         /\ adapter'.statistics = adapter.statistics
         /\ adapter'.statsDb = adapter.statsDb
         /\ AggregateStatistics' = AggregateStatistics
         /\ \A n \in Names : LogStatistics(n)' = LogStatistics(n) ]_vars

\* a store was refused for an id that another log holds
C39_Witness ==
  /\ backend = "nedb"
  /\ last.op = "store"
  /\ last.result = "error"
  /\ \E d \in adapter.logsDb : d.id = last.id /\ d.name # last.name
  /\ adapter.statistics.totalEntries > 0


\* C40: on the Redis server, after every call of a sequence of calls that
\* do not overlap, an id is a member of the sorted time index of a log
\* exactly when the document of that log name and id exists, and its score
\* is the timestamp the document holds.
C40_IndexMatchesDocuments ==
  \A namespace \in KeyNamespaces, logName \in KeyLogNames, logId \in KeyIds :
    LET logEntriesKey == Redis_getLogEntriesKey(namespace, logName)
        members == IF Has(adapter, logEntriesKey)
                      /\ adapter[logEntriesKey].type = "zset"
                   THEN adapter[logEntriesKey].members ELSE {}
        entry == Server_getLogEntryById(adapter, namespace, logName, logId)
    IN /\ entry.found <=> \E m \in members : m[1] = logId
       /\ \A m \in members :
            m[1] = logId => m[2] = entry.value.document.timestamp

====
